---- MODULE Spec2Model ----
(***************************************************************************)
(* Model of the post-OCR pipeline of PDF-CONVERT:                          *)
(*   - LLMPostProcessor.enrich (src/src/pdf_convert/llm_postprocessing.py)  *)
(*     with its response cache and provider fallback loop;                 *)
(*   - OCRPipeline.run (src/src/backend/pipeline.py);                      *)
(*   - the Celery task process_pdf (src/src/backend/tasks.py) running in   *)
(*     a SQLAlchemy session_scope (src/src/backend/database.py).           *)
(*                                                                         *)
(* Python's None is the string None; texts, hashes, prompts and cache keys *)
(* are strings, built with \o as the code builds them.                     *)
(***************************************************************************)
EXTENDS Integers, Sequences, FiniteSets, TLC

VARIABLES
    providers,      \* LLMPostProcessor.providers: the chain, a sequence of names
    cacheEnabled,   \* LLMPostProcessorConfig.cache_enabled
    cache,          \* LLMPostProcessor._cache: cache key -> LLMResponse
    ncalls,         \* number of enrich calls made on the engine so far
    last,           \* the latest enrich call: its arguments and what it did
    ledger,         \* per (page_hash, model): what the calls so far returned
    jobs,           \* the committed rows of table jobs: job id -> row
    logs,           \* the committed rows of table job_logs, per job, in order
    files,          \* the results directory: path -> what was written there
    pc,             \* per worker: where its process_pdf invocation stands
    sess,           \* per worker: its session (the job object, pending log rows)
    delivered,      \* number of task messages handed to workers so far
    ret,            \* the process_pdf invocation that returned last
    probe           \* a function of the pipeline applied to chosen arguments

engineVars == <<providers, cacheEnabled, cache, ncalls, last, ledger>>

workerVars == <<jobs, logs, files, pc, sess, delivered, ret>>

vars == <<providers, cacheEnabled, cache, ncalls, last, ledger,
          jobs, logs, files, pc, sess, delivered, ret, probe>>

None == "<None>"

(* No function has been applied. *)
NoProbe == [fn |-> "none"]

----------------------------------------------------------------------------
(* Bounds of the engine model.                                             *)

MaxCalls == 2

(* The values enrich is called with.                                       *)
PageHashes == {None, "j1:1"}
Models == {None, "m1"}
PageTexts == {"van ban", "van"}
LayoutMetas == {None}

(* What one provider.generate call can do: raise, or return a response     *)
(* whose text is empty, whitespace only, or a real text.                   *)
Outcomes ==
    { [kind |-> "raise", text |-> ""],
      [kind |-> "resp", text |-> ""],
      [kind |-> "resp", text |-> "  "],
      [kind |-> "resp", text |-> "ok"] }

NonEmpty(o) == o.kind = "resp" /\ o.text \notin {"", " ", "  "}

(* What the providers of a chain of length len do in one enrich call. A    *)
(* provider behind the first one that answers with a text is never asked,  *)
(* so only one behaviour is listed for it.                                 *)
Behaviours(len) ==
    { beh \in [1..len -> Outcomes] :
        \A i \in 1..len : (\E j \in 1..(i - 1) : NonEmpty(beh[j])) => NonEmpty(beh[i]) }

(* The engines of the model: LLMPostProcessorConfig.providers is None (the *)
(* default) or a list, cache_enabled is a flag.                            *)
EngineConfigs ==
    { [given |-> FALSE, list |-> <<>>, cache_enabled |-> TRUE],
      [given |-> TRUE, list |-> <<>>, cache_enabled |-> TRUE],
      [given |-> TRUE, list |-> <<"openrouter", "ollama">>, cache_enabled |-> TRUE],
      [given |-> TRUE, list |-> <<"openrouter", "ollama">>, cache_enabled |-> FALSE],
      [given |-> TRUE, list |-> <<"agentrouter", "openrouter", "ollama">>,
       cache_enabled |-> TRUE] }

----------------------------------------------------------------------------
(* LLMPostProcessor                                                        *)

(* str.strip() on the texts of the model. *)
Strip(t) ==
    IF t \in {"", " ", "  "} THEN ""
    ELSE IF t = " van  ban\n" THEN "van  ban"
    ELSE t

(* Python truthiness of an optional string. *)
Truthy(s) == s # None /\ s # ""

(* LLMPostProcessor.__init__: providers None means [OllamaProvider()]. *)
InitProviders(config) == IF config.given THEN config.list ELSE <<"ollama">>

(* json.dumps(layout_metadata or {}, sort_keys=True) *)
MetadataStr(meta) == IF meta = None THEN "{}" ELSE meta

prompt_from_context(text, meta) ==
    "Noi dung OCR:\n" \o text \o "\nMetadata bo cuc:\n" \o MetadataStr(meta) \o "\n"

(* hashlib.sha256(material).hexdigest(), kept symbolic (and so injective). *)
Sha256(material) == "sha256(" \o material \o ")"

cache_key(page_hash, model) ==
    LET key_material == IF page_hash # None THEN page_hash ELSE ""
        digest == Sha256(IF key_material # "" THEN key_material ELSE "no-hash")
        model_suffix == IF Truthy(model) THEN model ELSE "default"
    IN  digest \o ":" \o model_suffix

NoResult == [kind |-> "null", text |-> "", provider |-> None, id |-> <<0, 0>>]

(* Mutants of the provider loop: one that does not stop at the first text  *)
(* and returns the last one, one that keeps the first exception.           *)
RECURSIVE ProviderLoopNoStop(_, _, _, _, _, _)
ProviderLoopNoStop(chain, beh, n, i, last_error, invoked) ==
    IF i > Len(chain)
    THEN [result |-> last_error, invoked |-> invoked]
    ELSE IF beh[i].kind = "raise"
    THEN ProviderLoopNoStop(chain, beh, n, i + 1,
             IF last_error.kind = "response" THEN last_error
             ELSE [kind |-> "raise", text |-> "", provider |-> chain[i], id |-> <<n, i>>],
             Append(invoked, [provider |-> chain[i], status |-> "raised"]))
    ELSE IF Strip(beh[i].text) = ""
    THEN ProviderLoopNoStop(chain, beh, n, i + 1, last_error,
             Append(invoked, [provider |-> chain[i], status |-> "empty"]))
    ELSE ProviderLoopNoStop(chain, beh, n, i + 1,
             [kind |-> "response", text |-> beh[i].text,
              provider |-> chain[i], id |-> <<n, i>>],
             Append(invoked, [provider |-> chain[i], status |-> "success"]))

RECURSIVE ProviderLoopFirstError(_, _, _, _, _, _)
ProviderLoopFirstError(chain, beh, n, i, last_error, invoked) ==
    IF i > Len(chain)
    THEN [result |-> last_error, invoked |-> invoked]
    ELSE IF beh[i].kind = "raise"
    THEN ProviderLoopFirstError(chain, beh, n, i + 1,
             IF last_error.kind = "raise" THEN last_error
             ELSE [kind |-> "raise", text |-> "", provider |-> chain[i], id |-> <<n, i>>],
             Append(invoked, [provider |-> chain[i], status |-> "raised"]))
    ELSE IF Strip(beh[i].text) = ""
    THEN ProviderLoopFirstError(chain, beh, n, i + 1, last_error,
             Append(invoked, [provider |-> chain[i], status |-> "empty"]))
    ELSE [result |-> [kind |-> "response", text |-> beh[i].text,
                      provider |-> chain[i], id |-> <<n, i>>],
          invoked |-> Append(invoked, [provider |-> chain[i], status |-> "success"])]

(* Mutant of the provider loop: a blank text is returned like any other.   *)
RECURSIVE ProviderLoopBlankServes(_, _, _, _, _, _)
ProviderLoopBlankServes(chain, beh, n, i, last_error, invoked) ==
    IF i > Len(chain)
    THEN [result |-> last_error, invoked |-> invoked]
    ELSE IF beh[i].kind = "raise"
    THEN ProviderLoopBlankServes(chain, beh, n, i + 1,
             [kind |-> "raise", text |-> "", provider |-> chain[i], id |-> <<n, i>>],
             Append(invoked, [provider |-> chain[i], status |-> "raised"]))
    ELSE [result |-> [kind |-> "response", text |-> beh[i].text,
                      provider |-> chain[i], id |-> <<n, i>>],
          invoked |-> Append(invoked, [provider |-> chain[i], status |-> "success"])]

(* The provider loop of enrich from position i on. n numbers the call; the *)
(* response or exception made by provider i in call n has identity <<n,i>>. *)
RECURSIVE ProviderLoop(_, _, _, _, _, _)
ProviderLoop(chain, beh, n, i, last_error, invoked) ==
    IF i > Len(chain)
    THEN [result |-> last_error, invoked |-> invoked]
    ELSE IF beh[i].kind = "raise"
    THEN ProviderLoop(chain, beh, n, i + 1,
             [kind |-> "raise", text |-> "", provider |-> chain[i], id |-> <<n, i>>],
             Append(invoked, [provider |-> chain[i], status |-> "raised"]))
    ELSE IF Strip(beh[i].text) = ""
    THEN ProviderLoop(chain, beh, n, i + 1, last_error,
             Append(invoked, [provider |-> chain[i], status |-> "empty"]))
    ELSE [result |-> [kind |-> "response", text |-> beh[i].text,
                      provider |-> chain[i], id |-> <<n, i>>],
          invoked |-> Append(invoked, [provider |-> chain[i], status |-> "success"])]

(* Mutant of enrich: the cache is written but never consulted.            *)
enrich_no_lookup(chain, cache_enabled, c, text, meta, model, page_hash, beh, n) ==
    LET prompt == prompt_from_context(text, meta)
        key == cache_key(IF Truthy(page_hash) THEN page_hash ELSE prompt, model)
        r == ProviderLoop(chain, beh, n, 1, NoResult, <<>>)
    IN  [result |-> r.result, invoked |-> r.invoked, hit |-> FALSE, key |-> key,
         cache |-> IF r.result.kind = "response" /\ cache_enabled
                   THEN [k \in DOMAIN c \cup {key} |-> IF k = key THEN r.result ELSE c[k]]
                   ELSE c]

(* Mutant of enrich: whatever the loop ends with is cached, a failure too. *)
enrich_caches_failure(chain, cache_enabled, c, text, meta, model, page_hash, beh, n) ==
    LET prompt == prompt_from_context(text, meta)
        key == cache_key(IF Truthy(page_hash) THEN page_hash ELSE prompt, model)
    IN  IF cache_enabled /\ key \in DOMAIN c
        THEN [result |-> c[key], invoked |-> <<>>, hit |-> TRUE, key |-> key, cache |-> c]
        ELSE LET r == ProviderLoop(chain, beh, n, 1, NoResult, <<>>)
             IN  [result |-> r.result, invoked |-> r.invoked, hit |-> FALSE, key |-> key,
                  cache |-> IF cache_enabled
                            THEN [k \in DOMAIN c \cup {key} |->
                                     IF k = key THEN r.result ELSE c[k]]
                            ELSE c]

(* Mutant of enrich: the prompt is the key material, page_hash or not.     *)
enrich_prompt_key(chain, cache_enabled, c, text, meta, model, page_hash, beh, n) ==
    LET prompt == prompt_from_context(text, meta)
        key == cache_key(prompt, model)
    IN  IF cache_enabled /\ key \in DOMAIN c
        THEN [result |-> c[key], invoked |-> <<>>, hit |-> TRUE, key |-> key, cache |-> c]
        ELSE LET r == ProviderLoop(chain, beh, n, 1, NoResult, <<>>)
             IN  [result |-> r.result, invoked |-> r.invoked, hit |-> FALSE, key |-> key,
                  cache |-> IF r.result.kind = "response" /\ cache_enabled
                            THEN [k \in DOMAIN c \cup {key} |->
                                     IF k = key THEN r.result ELSE c[k]]
                            ELSE c]

(* LLMPostProcessor.enrich as a function of the engine state and of what    *)
(* the providers do (beh) when it invokes them.                            *)
enrich(chain, cache_enabled, c, text, meta, model, page_hash, beh, n) ==
    LET prompt == prompt_from_context(text, meta)
        key == cache_key(IF Truthy(page_hash) THEN page_hash ELSE prompt, model)
    IN  IF cache_enabled /\ key \in DOMAIN c
        THEN [result |-> c[key], invoked |-> <<>>, hit |-> TRUE, key |-> key, cache |-> c]
        ELSE LET r == ProviderLoop(chain, beh, n, 1, NoResult, <<>>)
             IN  [result |-> r.result, invoked |-> r.invoked, hit |-> FALSE, key |-> key,
                  cache |-> IF r.result.kind = "response" /\ cache_enabled
                            THEN [k \in DOMAIN c \cup {key} |->
                                     IF k = key THEN r.result ELSE c[k]]
                            ELSE c]

----------------------------------------------------------------------------
(* The engine on its own: one LLMPostProcessor, called MaxCalls times.     *)

(* The first provider that answers with a text, and the last that raises *)
(* (0: none), read off what the providers do.                              *)
FirstOk(beh) ==
    IF \E i \in DOMAIN beh : NonEmpty(beh[i])
    THEN CHOOSE i \in DOMAIN beh :
             NonEmpty(beh[i]) /\ \A j \in DOMAIN beh : NonEmpty(beh[j]) => i <= j
    ELSE 0

LastRaise(beh) ==
    IF \E i \in DOMAIN beh : beh[i].kind = "raise"
    THEN CHOOSE i \in DOMAIN beh :
             beh[i].kind = "raise" /\ \A j \in DOMAIN beh : beh[j].kind = "raise" => j <= i
    ELSE 0

NoCall ==
    [n |-> 0, page_hash |-> None, model |-> None, key |-> "", hit |-> FALSE,
     firstOk |-> 0, lastRaise |-> 0, invoked |-> <<>>, result |-> NoResult,
     cacheBefore |-> <<>>, after |-> "none"]

HashModel == PageHashes \X Models

NoLedger == [rids |-> {}, gens |-> 0, stale |-> FALSE]

(* The ledger after a call for (page_hash, model): the responses returned, *)
(* how many of them a provider generated in that call, and whether a call  *)
(* made after a response was returned invoked a provider again or returned *)
(* something else.                                                         *)
Record(l, r) ==
    [rids |-> IF r.result.kind = "response" THEN l.rids \cup {r.result.id} ELSE l.rids,
     gens |-> IF r.result.kind = "response" /\ ~r.hit THEN l.gens + 1 ELSE l.gens,
     stale |-> l.stale \/ (l.rids # {} /\
                 (r.invoked # <<>> \/ r.result.kind # "response"
                    \/ r.result.id \notin l.rids))]

EngineInit ==
    /\ \E config \in EngineConfigs :
          /\ providers = InitProviders(config)
          /\ cacheEnabled = config.cache_enabled
    /\ cache = <<>>
    /\ ncalls = 0
    /\ last = NoCall
    /\ ledger = [hm \in HashModel |-> NoLedger]
    /\ jobs = <<>> /\ logs = <<>> /\ files = <<>> /\ pc = <<>> /\ sess = <<>>
    /\ delivered = 0 /\ ret = <<>>
    /\ probe = NoProbe

Enrich ==
    /\ ncalls < MaxCalls
    /\ \E text \in PageTexts, meta \in LayoutMetas, model \in Models,
          page_hash \in PageHashes, beh \in Behaviours(Len(providers)) :
          LET n == ncalls + 1
              r == enrich(providers, cacheEnabled, cache, text, meta, model, page_hash, beh, n)
          IN  /\ cache' = r.cache
              /\ ncalls' = n
              /\ last' = [n |-> n, page_hash |-> page_hash, model |-> model,
                          key |-> r.key, hit |-> r.hit,
                          firstOk |-> IF r.hit THEN 0 ELSE FirstOk(beh),
                          lastRaise |-> IF r.hit THEN 0 ELSE LastRaise(beh), invoked |-> r.invoked,
                          result |-> r.result, cacheBefore |-> cache,
                          after |-> IF last.n > 0 /\ last.key = r.key
                                         /\ last.result.kind # "response"
                                    THEN last.result.kind ELSE "none"]
              /\ ledger' = [ledger EXCEPT ![<<page_hash, model>>] = Record(@, r)]
    /\ UNCHANGED <<providers, cacheEnabled>>
    /\ UNCHANGED workerVars
    /\ UNCHANGED probe

EngineNext == Enrich

SpecEngine == EngineInit /\ [][EngineNext]_vars

----------------------------------------------------------------------------
(* Texts. A text is a string; the string functions the code uses are       *)
(* tabulated on the texts of the model.                                    *)

(* OCRResult.confidence is a float or None: hundredths, None is -1.        *)
NoConfidence == -1

(* PostProcessingConfig.confidence_threshold = 0.85, in hundredths.        *)
ConfidenceThreshold == 85

Digits == <<"1", "2", "3", "4", "5", "6", "7", "8", "9">>

(* str(k) *)
IntStr(k) == IF k = 0 THEN "0" ELSE Digits[k]

(* str.split() *)
Split(text) ==
    CASE Strip(text) = "" -> <<>>
      [] text \in {"van ban", " van  ban\n"} -> <<"van", "ban">>
      [] text = "van BAN" -> <<"van", "BAN">>
      [] OTHER -> <<text>>

(* " ".join(tokens) *)
RECURSIVE Join(_, _)
Join(sep, tokens) ==
    IF tokens = <<>> THEN ""
    ELSE IF Len(tokens) = 1 THEN tokens[1]
    ELSE tokens[1] \o sep \o Join(sep, Tail(tokens))

(* ViTokenizer.tokenize(text): compounds are joined by an underscore.      *)
ViTokenize(text) ==
    IF text \in {"van ban", " van  ban\n"} THEN "van_ban" ELSE text

----------------------------------------------------------------------------
(* SpellChecker, apply_internal_dictionary, OCRPostProcessor               *)
(* (src/src/pdf_convert/postprocessing.py).                                *)

(* SpellCheckConfig() as OCRPipeline builds it: the defaults.              *)
DefaultSpellCheck ==
    [custom_words |-> {}, use_languagetool |-> TRUE, use_pyvi |-> TRUE]

(* SpellChecker._tokenize *)
tokenize(sc, text) ==
    IF ~sc.use_pyvi THEN Split(text) ELSE Split(ViTokenize(text))

(* What correct makes of one token. tool is LanguageTool.check tabulated:  *)
(* token -> first replacement of its first match (the token itself when    *)
(* the match has no replacement); a token outside its domain has no match. *)
Matched(sc, tool, token) ==
    token \notin sc.custom_words /\ sc.use_languagetool /\ token \in DOMAIN tool

Corrected(sc, tool, token) ==
    IF Matched(sc, tool, token) THEN tool[token] ELSE token

(* SpellChecker.correct; the imports of _load_language_tool and _tokenize  *)
(* raise ImportError when the package is missing.                          *)
correct(sc, text, tool, faults) ==
    IF (sc.use_languagetool /\ "language_tool" \in faults)
         \/ (sc.use_pyvi /\ "pyvi" \in faults)
    THEN [kind |-> "raise"]
    ELSE LET tokens == tokenize(sc, text)
             IsMatched(t) == Matched(sc, tool, t)
             matched == SelectSeq(tokens, IsMatched)
         IN  [kind |-> "result",
              original_text |-> text,
              corrected_text |->
                  Join(" ", [i \in 1..Len(tokens) |-> Corrected(sc, tool, tokens[i])]),
              corrections |->
                  [i \in 1..Len(matched) |-> matched[i] \o " -> " \o tool[matched[i]]]]

apply_internal_dictionary(text, dictionary) ==
    LET tokens == Split(text)
    IN  Join(" ", [i \in 1..Len(tokens) |->
                      IF tokens[i] \in DOMAIN dictionary THEN dictionary[tokens[i]]
                      ELSE tokens[i]])

(* Mutant of final_text: the enrichment text is never preferred. *)
final_text_spell_only(r) == r.spell_checked_text

(* PostProcessingResult.final_text: llm_text or spell_checked_text *)
final_text(r) == IF Truthy(r.llm_text) THEN r.llm_text ELSE r.spell_checked_text

(* Mutant of the decision: a confidence equal to the threshold counts as   *)
(* low, and the tables are not looked at.                                  *)
should_run_llm_inclusive(pp, confidence, layout_metadata) ==
    pp.enable_llm /\ (confidence = NoConfidence \/ confidence <= pp.confidence_threshold)

(* OCRPostProcessor._should_run_llm. A dict is a record, the empty dict    *)
(* and None are <<>>; layout_metadata may carry a list tables of dicts.    *)
should_run_llm(pp, confidence, layout_metadata) ==
    IF ~pp.enable_llm THEN FALSE
    ELSE IF confidence = NoConfidence THEN TRUE
    ELSE IF confidence < pp.confidence_threshold THEN TRUE
    ELSE /\ "tables" \in DOMAIN layout_metadata
         /\ \E i \in DOMAIN layout_metadata.tables :
               LET table == layout_metadata.tables[i]
               IN  \/ ("missing_cells" \in DOMAIN table /\ table.missing_cells)
                   \/ ("gaps" \in DOMAIN table /\ table.gaps)
                   \/ ("needs_completion" \in DOMAIN table /\ table.needs_completion)

(* process_page, lines 166-181: r is what enrich did when the page was     *)
(* sent to it (runs), and is not looked at otherwise.                      *)
page_result(page, spell_result, mapped_text, c, runs, r) ==
    IF runs /\ r.result.kind = "raise"
    THEN [kind |-> "raise", cache |-> r.cache, invoked |-> r.invoked]
    ELSE [kind |-> "result",
          cache |-> IF runs THEN r.cache ELSE c,
          invoked |-> IF runs THEN r.invoked ELSE <<>>,
          result |->
              [original_text |-> page.text,
               spell_checked_text |-> mapped_text,
               llm_text |-> IF runs /\ r.result.kind = "response"
                            THEN r.result.text ELSE None,
               corrections |-> spell_result.corrections,
               provider |-> IF runs /\ r.result.kind = "response"
                            THEN r.result.provider ELSE None]]

(* Mutant of process_page: the engine is handed the raw OCR text. *)
map_and_enrich_raw(pp, page, layout_metadata, page_hash, llm_model, c, beh, n, spell_result, mapped_text) ==
    page_result(page, spell_result, mapped_text, c,
                should_run_llm(pp, page.confidence, layout_metadata),
                enrich(pp.chain, pp.cache_enabled, c, page.text,
                       IF DOMAIN layout_metadata = {} THEN None ELSE "{tables}",
                       llm_model, page_hash, beh, n))

(* process_page, lines 160-165: the dictionary, then the engine.           *)
map_and_enrich(pp, page, layout_metadata, page_hash, llm_model, c, beh, n, spell_result, mapped_text) ==
    page_result(page, spell_result, mapped_text, c,
                should_run_llm(pp, page.confidence, layout_metadata),
                enrich(pp.chain, pp.cache_enabled, c, mapped_text,
                       IF DOMAIN layout_metadata = {} THEN None ELSE "{tables}",
                       llm_model, page_hash, beh, n))

after_correct(pp, page, layout_metadata, page_hash, llm_model, c, beh, n, spell_result) ==
    IF spell_result.kind = "raise"
    THEN [kind |-> "raise", cache |-> c, invoked |-> <<>>]
    ELSE map_and_enrich(pp, page, layout_metadata, page_hash, llm_model, c, beh, n,
                        spell_result,
                        apply_internal_dictionary(spell_result.corrected_text,
                                                  pp.custom_dictionary))

(* OCRPostProcessor.process_page with the engine's cache c; n numbers the  *)
(* enrich call. The result has the five fields of PostProcessingResult.    *)
process_page(pp, page, layout_metadata, page_hash, llm_model, c, tool, faults, beh, n) ==
    after_correct(pp, page, layout_metadata, page_hash, llm_model, c, beh, n,
                  correct(pp.spell_check, page.text, tool, faults))

----------------------------------------------------------------------------
(* OCRPipeline (src/src/backend/pipeline.py). A dict is a record, the      *)
(* empty dict is <<>>; an optional object is <<>> when it is None.         *)

(* Settings() with its defaults (src/src/backend/config.py). *)
Settings ==
    [llm_provider |-> None, llm_model |-> None, llm_base_url |-> None,
     llm_api_key |-> None, llm_fallback_enabled |-> FALSE]

(* dict.get(key, default) *)
Get(d, key, default) == IF key \in DOMAIN d THEN d[key] ELSE default

(* a or b, on optional strings *)
Or(a, b) == IF Truthy(a) THEN a ELSE b

InSeq(x, seq) == \E i \in DOMAIN seq : seq[i] = x

(* Mutant of the provider sequence: a name is added again.                *)
RECURSIVE AppendAll(_, _)
AppendAll(sequence, names) ==
    IF names = <<>> THEN sequence
    ELSE AppendAll(IF Truthy(names[1]) THEN Append(sequence, names[1]) ELSE sequence,
                   Tail(names))

(* provider_sequence: the names added one by one, empty names and names    *)
(* already in the sequence skipped.                                        *)
RECURSIVE AppendNew(_, _)
AppendNew(sequence, names) ==
    IF names = <<>> THEN sequence
    ELSE AppendNew(IF Truthy(names[1]) /\ ~InSeq(names[1], sequence)
                   THEN Append(sequence, names[1]) ELSE sequence,
                   Tail(names))

(* Mutant of the base URL: a name without one is given a URL of its own.   *)
ProviderBaseUrlAlways(name, options, settings) ==
    LET override == Get(Get(options, "providers", <<>>), name, <<>>)
        shared_base_url == Or(Get(options, "base_url", None), settings.llm_base_url)
        base_url == Or(Get(override, "base_url", None), shared_base_url)
    IN  IF Truthy(base_url) THEN base_url ELSE "https://" \o name

(* The base URL a provider other than ollama is built with; None: skipped. *)
ProviderBaseUrl(name, options, settings) ==
    LET override == Get(Get(options, "providers", <<>>), name, <<>>)
        shared_base_url == Or(Get(options, "base_url", None), settings.llm_base_url)
        base_url == Or(Get(override, "base_url", None), shared_base_url)
    IN  IF Truthy(base_url) THEN base_url
        ELSE IF name = "openrouter" THEN "https://openrouter.ai/api/v1/chat/completions"
        ELSE IF name = "agentrouter" THEN "https://api.agentrouter.ai/v1"
        ELSE None

(* Mutant of the chain: without an explicit list the implicit fallback is  *)
(* appended only on the job's own option, the process default is not read. *)
build_llm_providers_option_only(options, settings) ==
    IF ~Get(options, "enable_llm", TRUE) THEN <<>>
    ELSE LET primary == Or(Get(options, "provider", None), settings.llm_provider)
             listed == Get(options, "fallback_providers", <<>>)
             fallback_names ==
                 IF listed # <<>> THEN listed
                 ELSE IF "fallback_enabled" \in DOMAIN options /\ options.fallback_enabled
                 THEN listed \o (IF primary # "ollama" THEN <<"ollama">> ELSE <<>>)
                 ELSE <<>>
             provider_sequence ==
                 AppendNew(IF Truthy(primary) THEN <<primary>> ELSE <<>>, fallback_names)
             Resolved(name) ==
                 name = "ollama" \/ Truthy(ProviderBaseUrl(name, options, settings))
         IN  SelectSeq(provider_sequence, Resolved)

(* OCRPipeline._build_llm_providers: the resolved names, one per provider  *)
(* object built. Its import of pdf_convert.llm_postprocessing has always   *)
(* succeeded by the time it is called from _build_postprocessor.           *)
build_llm_providers(options, settings) ==
    IF ~Get(options, "enable_llm", TRUE) THEN <<>>
    ELSE LET primary == Or(Get(options, "provider", None), settings.llm_provider)
             listed == Get(options, "fallback_providers", <<>>)
             fallback_names ==
                 IF listed # <<>> THEN listed
                 ELSE IF ("fallback_enabled" \in DOMAIN options /\ options.fallback_enabled)
                          \/ ("fallback_enabled" \notin DOMAIN options
                                /\ settings.llm_fallback_enabled)
                 THEN listed \o (IF primary # "ollama" THEN <<"ollama">> ELSE <<>>)
                 ELSE <<>>
             provider_sequence ==
                 AppendNew(IF Truthy(primary) THEN <<primary>> ELSE <<>>, fallback_names)
             Resolved(name) ==
                 name = "ollama" \/ Truthy(ProviderBaseUrl(name, options, settings))
         IN  SelectSeq(provider_sequence, Resolved)

(* Mutant of _build_postprocessor: fallback counts as configured as soon   *)
(* as one provider resolved.                                               *)
build_postprocessor_any_provider(llm_options, settings, faults) ==
    IF "postprocessing" \in faults
    THEN [kind |-> "raise", message |-> "Post-processing dependencies are not installed"]
    ELSE LET options == llm_options
             provider_names == build_llm_providers(options, settings)
             selected_model == Or(Get(options, "model", None), settings.llm_model)
         IN  IF provider_names = <<>>
             THEN [kind |-> "ok", postprocessor |-> <<>>,
                   provider_chain |-> provider_names, llm_model |-> selected_model,
                   fallback_configured |-> FALSE]
             ELSE [kind |-> "ok",
                   postprocessor |->
                       [spell_check |-> DefaultSpellCheck,
                        confidence_threshold |-> ConfidenceThreshold,
                        enable_llm |-> TRUE,
                        chain |-> InitProviders([given |-> TRUE, list |-> provider_names]),
                        cache_enabled |-> Get(options, "cache_enabled", TRUE),
                        custom_dictionary |-> <<>>],
                   provider_chain |-> provider_names, llm_model |-> selected_model,
                   fallback_configured |-> Len(provider_names) > 0]

(* OCRPipeline._build_postprocessor. The post-processor is the record of   *)
(* its PostProcessingConfig and of its engine's configuration.             *)
build_postprocessor(llm_options, settings, faults) ==
    IF "postprocessing" \in faults
    THEN [kind |-> "raise", message |-> "Post-processing dependencies are not installed"]
    ELSE LET options == llm_options
             provider_names == build_llm_providers(options, settings)
             selected_model == Or(Get(options, "model", None), settings.llm_model)
         IN  IF provider_names = <<>>
             THEN [kind |-> "ok", postprocessor |-> <<>>,
                   provider_chain |-> provider_names, llm_model |-> selected_model,
                   fallback_configured |-> FALSE]
             ELSE [kind |-> "ok",
                   postprocessor |->
                       [spell_check |-> DefaultSpellCheck,
                        confidence_threshold |-> ConfidenceThreshold,
                        enable_llm |-> TRUE,
                        chain |-> InitProviders([given |-> TRUE, list |-> provider_names]),
                        cache_enabled |-> Get(options, "cache_enabled", TRUE),
                        custom_dictionary |-> <<>>],
                   provider_chain |-> provider_names, llm_model |-> selected_model,
                   fallback_configured |-> Len(provider_names) > 1]

(* A value found in a provider's raw response, by its Python type: null,   *)
(* bytes, str, int, list (value is the text or the octets, "" otherwise),  *)
(* or dict (items maps its keys to values).                                *)
Val(type, value) == [type |-> type, value |-> value]

(* What decoding gives: octets, None, or an exception. *)
Decoded(kind, data, error) == [kind |-> kind, data |-> data, error |-> error]

(* base64.b64decode on the strings of the model. Characters outside the    *)
(* alphabet are discarded, so plain text either decodes to other octets    *)
(* ("abcd") or fails with binascii.Error on its padding; a str with a      *)
(* non-ASCII character is refused with ValueError.                         *)
b64decode(s) ==
    CASE s = "ZG9jeA==" -> Decoded("bytes", "docx", "")
      [] s = "aGk="     -> Decoded("bytes", "hi", "")
      [] s = "abcd"     -> Decoded("bytes", "i\\xb7\\x1d", "")
      [] s = ""         -> Decoded("bytes", "", "")
      [] s = "café"     ->
             Decoded("raise", "", "ValueError: string argument should contain only ASCII characters")
      [] OTHER          -> Decoded("raise", "", "binascii.Error: Incorrect padding")

(* str.encode("utf-8"): ASCII text keeps its octets, é becomes two. *)
encode_utf8(s) == IF s = "café" THEN "caf\\xc3\\xa9" ELSE s

(* The try statement of _decode_artifact: only binascii.Error is caught. *)
decode_text(s) ==
    IF b64decode(s).kind = "raise" /\ b64decode(s).error = "binascii.Error: Incorrect padding"
    THEN Decoded("bytes", encode_utf8(s), "")
    ELSE b64decode(s)

(* OCRPipeline._decode_artifact *)
decode_artifact(value) ==
    CASE value.type = "null"  -> Decoded("null", "", "")
      [] value.type = "bytes" -> Decoded("bytes", value.value, "")
      [] value.type = "str"   -> decode_text(value.value)
      [] value.type = "dict"  ->
             LET content == Get(value.items, "content", Val("null", ""))
                 encoding == Get(value.items, "encoding", Val("str", "base64"))
                 lower == CASE encoding.value = "UTF-8" -> "utf-8"
                            [] encoding.value = "Text" -> "text"
                            [] OTHER -> encoding.value
             IN  IF content.type = "bytes" THEN Decoded("bytes", content.value, "")
                 ELSE IF content.type # "str" THEN Decoded("null", "", "")
                 ELSE IF encoding = Val("str", "base64") THEN decode_text(content.value)
                 ELSE IF encoding.type # "str"
                 THEN Decoded("raise", "",
                              "AttributeError: object has no attribute 'lower'")
                 ELSE IF lower \in {"utf-8", "text"}
                 THEN Decoded("bytes", encode_utf8(content.value), "")
                 ELSE Decoded("null", "", "")
      [] OTHER -> Decoded("null", "", "")

(* The loops of _extract_artifacts over the candidates and the two keys:   *)
(* slots holds the (candidate, key) pairs still to look at.                *)
RECURSIVE ExtractLoop(_, _)
ExtractLoop(slots, artifacts) ==
    IF slots = <<>> THEN [kind |-> "ok", found |-> artifacts, message |-> ""]
    ELSE LET candidate == slots[1][1]
             key == slots[1][2]
         IN  IF key \notin DOMAIN candidate \/ candidate[key].type = "null"
             THEN ExtractLoop(Tail(slots), artifacts)
             ELSE IF decode_artifact(candidate[key]).kind = "raise"
             THEN [kind |-> "raise", found |-> <<>>,
                   message |-> decode_artifact(candidate[key]).error]
             ELSE IF decode_artifact(candidate[key]).kind = "null"
             THEN ExtractLoop(Tail(slots), artifacts)
             ELSE ExtractLoop(Tail(slots),
                      Append(artifacts, <<key, decode_artifact(candidate[key]).data>>))

(* OCRPipeline._extract_artifacts: the (kind, data) pairs of the raw       *)
(* response and then of its dict artifacts.                                *)
extract_artifacts(raw) ==
    ExtractLoop(<<<<raw, "docx">>, <<raw, "xlsx">>>>
                  \o (IF "artifacts" \in DOMAIN raw /\ raw.artifacts.type = "dict"
                      THEN <<<<raw.artifacts.items, "docx">>,
                             <<raw.artifacts.items, "xlsx">>>>
                      ELSE <<>>),
                <<>>)

(* StorageManager.result_path_for and artifact_path_for *)
result_path_for(job_id) == "var/results/" \o job_id \o ".json"

artifact_path_for(job_id, suffix) == "var/results/" \o job_id \o suffix

(* A dict with one more key, and dict.setdefault for every key of b. *)
With(d, key, value) ==
    [k \in DOMAIN d \cup {key} |-> IF k = key THEN value ELSE d[k]]

SetDefaults(a, b) ==
    [k \in DOMAIN a \cup DOMAIN b |-> IF k \in DOMAIN a THEN a[k] ELSE b[k]]

(* Mutant of the synthesis: an exception of build_docx is not caught. *)
generate_office_artifacts_docx_fatal(job_id, pages, writes, faults) ==
    IF "docx" \in faults
    THEN [kind |-> "raise",
          message |-> "python-docx is required to export DOCX artifacts",
          writes |-> writes]
    ELSE [kind |-> "ok",
          artifacts |->
              SetDefaults([docx |-> artifact_path_for(job_id, ".docx")],
                          IF "pandas" \notin faults
                          THEN [xlsx |-> artifact_path_for(job_id, ".xlsx")] ELSE <<>>),
          writes |-> writes]

(* OCRPipeline._generate_office_artifacts. writes is the results directory *)
(* as the run has left it so far; a full disk makes write_bytes raise.     *)
generate_office_artifacts(job_id, pages, writes, faults) ==
    IF "artifact_export" \in faults
    THEN [kind |-> "ok", artifacts |-> <<>>, writes |-> writes]
    ELSE LET docx == "docx" \notin faults
             xlsx == "pandas" \notin faults
             docx_path == artifact_path_for(job_id, ".docx")
             xlsx_path == artifact_path_for(job_id, ".xlsx")
             after_docx == IF docx THEN With(writes, docx_path, [docx |-> pages]) ELSE writes
             after_xlsx == IF xlsx THEN With(after_docx, xlsx_path, [xlsx |-> pages])
                           ELSE after_docx
         IN  IF (docx \/ xlsx) /\ "disk" \in faults
             THEN [kind |-> "raise", message |-> "No space left on device",
                   writes |-> writes]
             ELSE [kind |-> "ok",
                   artifacts |->
                       SetDefaults(IF docx THEN [docx |-> docx_path] ELSE <<>>,
                                   IF xlsx THEN [xlsx |-> xlsx_path] ELSE <<>>),
                   writes |-> after_xlsx]

(* Mutant of the start of run: the engine is not new, its cache holds the  *)
(* responses cached for the first page of each job by earlier runs.        *)
NoPagesKeptCache ==
    [corrected_pages |-> <<>>, page_details |-> <<>>, provider_usage |-> <<>>,
     fallback_attempts |-> <<>>, artifacts |-> <<>>,
     cache |-> [key \in {cache_key("0a:1", None), cache_key("0b:1", "m1")} |->
                   [kind |-> "response", text |-> "ok", provider |-> "ollama",
                    id |-> <<1, 1>>]],
     writes |-> <<>>]

(* The loop of run keeps: the lists and dicts it builds, the cache of the  *)
(* engine of its post-processor, and the files written so far.             *)
NoPages ==
    [corrected_pages |-> <<>>, page_details |-> <<>>, provider_usage |-> <<>>,
     fallback_attempts |-> <<>>, artifacts |-> <<>>, cache |-> <<>>, writes |-> <<>>]

(* Mutant of the end of an iteration: the page's entry is put in front of  *)
(* the entries of the pages before it.                                     *)
AddPageInFront(acc, index, result, spell_checked, corrections, llm_text, provider_name, attempts, final) ==
    [acc EXCEPT
        !.corrected_pages = Append(@, final),
        !.provider_usage = Append(@, provider_name),
        !.page_details =
            <<[page |-> index, raw_text |-> result.text,
               spell_checked_text |-> spell_checked, llm_text |-> llm_text,
               final_text |-> final, confidence |-> result.confidence,
               provider |-> provider_name, corrections |-> corrections,
               attempts |-> attempts]>> \o @,
        !.fallback_attempts =
            IF attempts # <<>> THEN Append(@, [page |-> index, attempts |-> attempts])
            ELSE @]

(* The end of one iteration of the loop: lines 316-331. *)
AddPage(acc, index, result, spell_checked, corrections, llm_text, provider_name, attempts, final) ==
    [acc EXCEPT
        !.corrected_pages = Append(@, final),
        !.provider_usage = Append(@, provider_name),
        !.page_details =
            Append(@, [page |-> index, raw_text |-> result.text,
                       spell_checked_text |-> spell_checked, llm_text |-> llm_text,
                       final_text |-> final, confidence |-> result.confidence,
                       provider |-> provider_name, corrections |-> corrections,
                       attempts |-> attempts]),
        !.fallback_attempts =
            IF attempts # <<>> THEN Append(@, [page |-> index, attempts |-> attempts])
            ELSE @]

(* Lines 310-315: an artifact of a kind not yet recorded is written.       *)
RECURSIVE StoreArtifacts(_, _, _)
StoreArtifacts(job_id, found, st) ==
    IF found = <<>> THEN st
    ELSE LET kind == found[1][1]
             path == artifact_path_for(job_id, "." \o kind)
         IN  StoreArtifacts(job_id, Tail(found),
                 IF kind \in DOMAIN st.artifacts THEN st
                 ELSE [artifacts |-> With(st.artifacts, kind, path),
                       writes |-> With(st.writes, path, [bytes |-> found[1][2]])])

(* Why run did not return: a PipelineDependencyError ("dep"), an           *)
(* LLMProcessingError ("llm") or another exception ("exc").                *)
Raised(kind, message, attempts, writes) ==
    [kind |-> kind, message |-> message, attempts |-> attempts, writes |-> writes]

(* Lines 303-315 for one page: what the loop has built once the fields of  *)
(* post_result are read and its artifacts stored (st).                     *)
read_post_result(acc, index, result, env, c, post_result, st) ==
    IF st.writes # acc.writes /\ "disk" \in env.faults
    THEN Raised("exc", "No space left on device", <<>>, acc.writes)
    ELSE [kind |-> "ok",
          acc |-> AddPage([acc EXCEPT !.cache = c, !.artifacts = st.artifacts,
                                      !.writes = st.writes],
                          index, result, post_result.spell_checked_text,
                          post_result.corrections, post_result.llm_text,
                          post_result.provider, post_result.attempts,
                          final_text(post_result))]

(* run, the loop over the extracted artifacts: extraction has finished,    *)
(* or raised, before the first of them is written.                         *)
store_extracted(job_id, acc, index, result, env, pr, extracted) ==
    IF extracted.kind = "raise"
    THEN Raised("exc", extracted.message, <<>>, acc.writes)
    ELSE read_post_result(acc, index, result, env, pr.cache, pr.result,
             StoreArtifacts(job_id, extracted.found,
                            [artifacts |-> acc.artifacts, writes |-> acc.writes]))

(* Lines 286-315 for one page, pr being what process_page did. pp carries  *)
(* the attributes of the post-processor and of its llm_processor.          *)
post_process(job_id, pp, acc, index, result, env, pr) ==
    IF pr.kind = "raise"
    THEN Raised("llm", "LLM post-processing failed", Get(pp, "last_attempts", <<>>),
                acc.writes)
    ELSE IF "attempts" \notin DOMAIN pr.result
    THEN Raised("exc", "'PostProcessingResult' object has no attribute 'attempts'",
                <<>>, acc.writes)
    ELSE IF "llm_raw" \notin DOMAIN pr.result
    THEN Raised("exc", "'PostProcessingResult' object has no attribute 'llm_raw'",
                <<>>, acc.writes)
    ELSE store_extracted(job_id, acc, index, result, env, pr,
             IF pr.result.llm_raw # <<>> THEN extract_artifacts(pr.result.llm_raw)
             ELSE [kind |-> "ok", found |-> <<>>, message |-> ""])

(* One iteration of the loop of run: lines 278-331. env says which imports *)
(* and writes fail, what LanguageTool suggests and what the providers do   *)
(* for each page.                                                          *)
one_page(job_id, built, env, index, result, acc) ==
    IF built.postprocessor = <<>>
    THEN [kind |-> "ok",
          acc |-> AddPage(acc, index, result, result.text, <<>>, None, None, <<>>,
                          result.text)]
    ELSE post_process(job_id, built.postprocessor, acc, index, result, env,
             process_page(built.postprocessor, result, <<>>,
                          job_id \o ":" \o IntStr(index), built.llm_model, acc.cache,
                          env.tool, env.faults, env.beh[index], index))

(* The loop of run from page index on. *)
RECURSIVE PageLoop(_, _, _, _, _, _)
PageLoop(job_id, results, built, env, index, step) ==
    IF step.kind # "ok" \/ index > Len(results) THEN step
    ELSE PageLoop(job_id, results, built, env, index + 1,
                  one_page(job_id, built, env, index, results[index], step.acc))

(* "\n\n".join(page.strip() for page in pages if page) *)
Combined(pages) ==
    LET NotEmpty(page) == page # ""
        kept == SelectSeq(pages, NotEmpty)
    IN  Join("\n\n", [i \in 1..Len(kept) |-> Strip(kept[i])])

(* Mutant of the usage map: the pages no provider served are kept. *)
UsageByPageUnfiltered(provider_usage) ==
    [s \in {IntStr(k) : k \in DOMAIN provider_usage} |->
        provider_usage[CHOOSE k \in DOMAIN provider_usage : IntStr(k) = s]]

(* {str(k): v for k, v in provider_usage.items() if v} *)
UsageByPage(provider_usage) ==
    LET used == {k \in DOMAIN provider_usage : Truthy(provider_usage[k])}
    IN  [s \in {IntStr(k) : k \in used} |->
            provider_usage[CHOOSE k \in used : IntStr(k) = s]]

RECURSIVE Sum(_)
Sum(seq) == IF seq = <<>> THEN 0 ELSE seq[1] + Sum(Tail(seq))

(* Lines 333-367: the payload before the office artifacts are added.       *)
Payload(results, built, acc) ==
    LET raw_pages == [i \in DOMAIN results |-> results[i].text]
        fallback_from_attempts ==
            \E r \in DOMAIN acc.fallback_attempts :
                \E a \in DOMAIN acc.fallback_attempts[r].attempts :
                    Get(acc.fallback_attempts[r].attempts[a], "status", None) = "failed"
        fallback_from_provider ==
            /\ built.provider_chain # <<>>
            /\ \E k \in DOMAIN acc.provider_usage :
                  /\ Truthy(acc.provider_usage[k])
                  /\ acc.provider_usage[k] # built.provider_chain[1]
    IN  [raw_pages |-> raw_pages,
         pages |-> acc.corrected_pages,
         raw_combined_text |-> Combined(raw_pages),
         combined_text |-> Combined(acc.corrected_pages),
         average_confidence |->
             <<Sum([i \in DOMAIN results |->
                       IF results[i].confidence = NoConfidence THEN 0
                       ELSE results[i].confidence]),
               IF Len(results) > 1 THEN Len(results) ELSE 1>>,
         page_details |-> acc.page_details,
         llm |-> [enabled |-> built.postprocessor # <<>>,
                  providers |-> built.provider_chain,
                  provider_usage |-> UsageByPage(acc.provider_usage),
                  model |-> built.llm_model,
                  fallback_configured |-> built.fallback_configured,
                  fallback_used |-> fallback_from_attempts \/ fallback_from_provider,
                  fallback_attempts |-> acc.fallback_attempts,
                  artifacts |-> acc.artifacts]]

(* The jobs of the model, by id (a UUID). *)
JobIds == {"0a", "0b"}

(* StorageManager.save_upload: where create_job stores the upload. *)
save_upload(job_id, filename) == "var/storage/" \o job_id \o "/" \o filename

(* The uploads of the model: what ocr.run_on_pdf returns for each, one      *)
(* OCRResult per page.                                                     *)
PdfPages ==
    [filename \in {"two.pdf", "one.pdf", "sure.pdf", "empty.pdf"} |->
        CASE filename = "two.pdf" ->
                 <<[text |-> "van ban", confidence |-> 50],
                   [text |-> " van  ban\n", confidence |-> 99]>>
          [] filename = "sure.pdf" ->
                 <<[text |-> "van ban", confidence |-> 99]>>
          [] filename = "one.pdf" ->
                 <<[text |-> "van", confidence |-> NoConfidence]>>
          [] OTHER -> <<>>]

OcrResults ==
    [path \in {save_upload(j, f) : j \in JobIds, f \in DOMAIN PdfPages} |->
        PdfPages[CHOOSE f \in DOMAIN PdfPages :
                    \E j \in JobIds : save_upload(j, f) = path]]

(* Mutant of the end of run: the merged artifacts reach the top level of   *)
(* the payload only, the llm section keeps the embedded ones.              *)
write_result_top_level_only(job_id, env, payload, artifacts, office) ==
    IF office.kind = "raise"
    THEN Raised("exc", office.message, <<>>, office.writes)
    ELSE IF "disk" \in env.faults
    THEN Raised("exc", "No space left on device", <<>>, office.writes)
    ELSE [kind |-> "ok",
          output_path |-> result_path_for(job_id),
          metadata |-> payload @@ [artifacts |-> SetDefaults(artifacts, office.artifacts)],
          writes |->
              With(office.writes, result_path_for(job_id),
                   [json |-> payload
                             @@ [artifacts |-> SetDefaults(artifacts, office.artifacts)]])]

(* Lines 369-389: the artifacts join the payload, the result is written.   *)
write_result(job_id, env, payload, artifacts, office) ==
    IF office.kind = "raise"
    THEN Raised("exc", office.message, <<>>, office.writes)
    ELSE IF "disk" \in env.faults
    THEN Raised("exc", "No space left on device", <<>>, office.writes)
    ELSE [kind |-> "ok",
          output_path |-> result_path_for(job_id),
          metadata |->
              [payload EXCEPT !.llm.artifacts = SetDefaults(artifacts, office.artifacts)]
                  @@ [artifacts |-> SetDefaults(artifacts, office.artifacts)],
          writes |->
              With(office.writes, result_path_for(job_id),
                   [json |-> [payload EXCEPT
                                 !.llm.artifacts = SetDefaults(artifacts, office.artifacts)]
                             @@ [artifacts |-> SetDefaults(artifacts, office.artifacts)]])]

(* Mutant of the end of run: the result file is created before the loop    *)
(* has ended, so a run that raises in the loop leaves one behind.          *)
after_pages_file_first(job_id, results, built, env, loop) ==
    IF loop.kind # "ok"
    THEN [loop EXCEPT !.writes = With(@, result_path_for(job_id), [json |-> <<>>])]
    ELSE write_result(job_id, env, Payload(results, built, loop.acc), loop.acc.artifacts,
                      generate_office_artifacts(job_id, loop.acc.corrected_pages,
                                                loop.acc.writes, env.faults))

(* Lines 333-389: after the loop. *)
after_pages(job_id, results, built, env, loop) ==
    IF loop.kind # "ok" THEN loop
    ELSE write_result(job_id, env, Payload(results, built, loop.acc), loop.acc.artifacts,
                      generate_office_artifacts(job_id, loop.acc.corrected_pages,
                                                loop.acc.writes, env.faults))

(* Lines 268-389: the post-processor is built, the pages go through it.    *)
with_postprocessor(job_id, results, env, built) ==
    IF built.kind = "raise"
    THEN Raised("dep", built.message, <<>>, <<>>)
    ELSE after_pages(job_id, results, built, env,
                     PageLoop(job_id, results, built, env, 1,
                              [kind |-> "ok", acc |-> NoPages]))

(* OCRPipeline.run *)
run(job_id, input_path, llm_options, env) ==
    IF "pdf_to_image" \in env.faults
    THEN Raised("dep", "pdf_to_image dependencies are not installed", <<>>, <<>>)
    ELSE IF "ocr" \in env.faults
    THEN Raised("dep", "OCR dependencies are not installed", <<>>, <<>>)
    ELSE IF "ocr_run" \in env.faults
    THEN Raised("exc",
                "PaddleOCR is not installed. Install paddleocr>=2.6.0 to use the Paddle backend.",
                <<>>, <<>>)
    ELSE with_postprocessor(job_id, OcrResults[input_path], env,
                            build_postprocessor(llm_options, Settings, env.faults))

----------------------------------------------------------------------------
(* The worker: process_pdf (src/src/backend/tasks.py) in a session_scope   *)
(* (src/src/backend/database.py).                                          *)

MaxDeliveries == 2

Workers == {"w1", "w2"}

(* The job_id arguments process_pdf is called with: the ids of the two     *)
(* jobs, a well-formed id without a row, and a string that is no UUID.     *)
TaskArgs == {"0a", "0b", "0c", "not-a-uuid"}

(* uuid.UUID(job_id): the UUID, or None where it raises ValueError.        *)
ParseUUID(job_id) ==
    IF job_id \in {"0a", "0b", "0c"} THEN job_id
    ELSE IF job_id = "0A" THEN "0a"
    ELSE None

Terminal == {"COMPLETED", "FAILED"}

(* JobLog(job=job, message=message, level=level, extra=extra or {}) *)
JobLog(level, message, extra) ==
    [level |-> level, message |-> message, extra |-> extra]

(* The row create_job commits for an upload, and its first log row.        *)
NewJob(job_id, filename, llm_options) ==
    [status |-> "PENDING", input_path |-> save_upload(job_id, filename),
     llm_options |-> llm_options, result_path |-> None, result_payload |-> <<>>,
     error_message |-> None]

(* The two jobs of a run of the model: file and llm_options of each.       *)
NoLLM == <<>>
TwoProviders == [provider |-> "openrouter", fallback_enabled |-> TRUE, model |-> "m1"]
OneProvider == [provider |-> "ollama"]

(* Options naming a provider no base URL resolves for: first with a        *)
(* fallback, alone, and between two providers that resolve.                *)
UnresolvedFirst == [provider |-> "custom", fallback_providers |-> <<"ollama">>]
UnresolvedOnly == [provider |-> "custom"]
UnresolvedMiddle ==
    [provider |-> "openrouter", fallback_providers |-> <<"custom", "ollama">>,
     model |-> "m1"]

JobSetups ==
    { [j \in JobIds |-> IF j = "0a" THEN [filename |-> "two.pdf", llm_options |-> NoLLM]
                        ELSE [filename |-> "one.pdf", llm_options |-> TwoProviders]],
      [j \in JobIds |-> IF j = "0a" THEN [filename |-> "empty.pdf", llm_options |-> OneProvider]
                        ELSE [filename |-> "one.pdf", llm_options |-> NoLLM]],
      [j \in JobIds |-> IF j = "0a" THEN [filename |-> "one.pdf", llm_options |-> OneProvider]
                        ELSE [filename |-> "one.pdf", llm_options |-> TwoProviders]] }

(* What can go wrong in one run: a missing package, a failing OCR engine,  *)
(* a full disk.                                                            *)
FaultSets ==
    { {}, {"pdf_to_image"}, {"ocr"}, {"ocr_run"}, {"postprocessing"}, {"language_tool"},
      {"pyvi"}, {"artifact_export"}, {"docx"}, {"pandas"}, {"docx", "pandas"}, {"disk"} }

(* LanguageTool finds nothing to correct. *)
NoMatches == <<>>

(* What the two providers of a chain do for a page. *)
PageBehaviours ==
    { <<[kind |-> "raise", text |-> ""], [kind |-> "raise", text |-> ""]>>,
      <<[kind |-> "raise", text |-> ""], [kind |-> "resp", text |-> "ok"]>>,
      <<[kind |-> "resp", text |-> ""], [kind |-> "resp", text |-> "  "]>>,
      <<[kind |-> "resp", text |-> "ok"], [kind |-> "resp", text |-> "ok"]>>,
      <<[kind |-> "resp", text |-> "ok",
         raw |-> [docx |-> Val("str", "ZG9jeA=="),
                  artifacts |-> [type |-> "dict",
                                 items |-> [docx |-> Val("bytes", "nested"),
                                            xlsx |-> Val("bytes", "sheet")]]]],
        [kind |-> "resp", text |-> "ok"]>> }

Envs ==
    { [faults |-> f, tool |-> NoMatches, beh |-> <<b, b>>] :
          f \in {{}}, b \in PageBehaviours }
      \cup
    { [faults |-> f, tool |-> NoMatches,
       beh |-> <<CHOOSE b \in PageBehaviours : b[1].kind = "raise" /\ b[2].text = "ok",
                 CHOOSE b \in PageBehaviours : b[1].kind = "raise" /\ b[2].text = "ok">>] :
          f \in FaultSets \ {{}} }

(* A malformed id falls back to the first job. *)
get_job_or_first(rows, job_id) ==
    LET identifier == ParseUUID(job_id)
    IN  IF identifier = None THEN "0a"
        ELSE IF identifier \in DOMAIN rows THEN identifier
        ELSE None

(* _get_job: the id of the row session.get returns, or None. *)
get_job(rows, job_id) ==
    LET identifier == ParseUUID(job_id)
    IN  IF identifier = None THEN None
        ELSE IF identifier \in DOMAIN rows THEN identifier
        ELSE None

(* A session: the job it loaded, the attributes it has set on it, the log  *)
(* rows it has added, what run did, and whether an exception leaves the    *)
(* with block.                                                             *)
NoOutcome == [kind |-> "none"]

NoSession ==
    [n |-> 0, arg |-> None, job |-> None, writes |-> <<>>, log |-> <<>>,
     outcome |-> NoOutcome, raised |-> FALSE, env |-> <<>>]

NoReturn ==
    [n |-> 0, arg |-> None, found |-> FALSE, job |-> None, outcome |-> NoOutcome,
     before |-> <<>>, row |-> <<>>, log |-> <<>>, env |-> <<>>]

(* Mutant of the pickup: the log row is written, the status is left.       *)
begin_without_status(n, arg, job) ==
    [n |-> n, arg |-> arg, job |-> job,
     writes |-> <<>>,
     log |-> <<JobLog("INFO", "Job picked up by worker.", <<>>)>>,
     outcome |-> NoOutcome, raised |-> FALSE, env |-> <<>>]

(* Lines 29-31: status PROCESSING, the pickup log row, flush. *)
begin(n, arg, job) ==
    [n |-> n, arg |-> arg, job |-> job,
     writes |-> [status |-> "PROCESSING"],
     log |-> <<JobLog("INFO", "Job picked up by worker.", <<>>)>>,
     outcome |-> NoOutcome, raised |-> FALSE, env |-> <<>>]

(* except Exception removed: the exception leaves the with block.          *)
on_exception_reraise(s, exc) == [s EXCEPT !.raised = TRUE]

(* The INFO entry is appended whether or not enrichment was enabled.       *)
on_success_always_info(s, result) ==
    [s EXCEPT
        !.writes = SetDefaults([status |-> "COMPLETED",
                                result_path |-> result.output_path,
                                result_payload |-> result.metadata], @),
        !.log = @ \o <<JobLog("INFO", "OCR pipeline completed successfully.", <<>>),
                       JobLog("INFO", "LLM post-processing applied.",
                              [llm |-> [providers |-> result.metadata.llm.providers,
                                        model |-> result.metadata.llm.model,
                                        provider_usage |-> result.metadata.llm.provider_usage,
                                        artifacts |-> result.metadata.llm.artifacts]])>>]

(* The ERROR entry of the enrichment branch without its attempts. *)
on_llm_error_no_attempts(s, exc) ==
    [s EXCEPT
        !.writes = SetDefaults([status |-> "FAILED", error_message |-> exc.message], @),
        !.log = Append(@, JobLog("ERROR", "LLM processing failed.", <<>>))]

(* Lines 40-69: run returned result. *)
on_success(s, result) ==
    LET llm_metadata == Get(result.metadata, "llm", <<>>)
        fallback_attempts == Get(llm_metadata, "fallback_attempts", <<>>)
    IN  [s EXCEPT
            !.writes = SetDefaults([status |-> "COMPLETED",
                                    result_path |-> result.output_path,
                                    result_payload |-> result.metadata], @),
            !.log = @ \o <<JobLog("INFO", "OCR pipeline completed successfully.", <<>>)>>
                      \o (IF Get(llm_metadata, "enabled", FALSE)
                          THEN <<JobLog("INFO", "LLM post-processing applied.",
                                    [llm |-> [providers |-> Get(llm_metadata, "providers", <<>>),
                                              model |-> Get(llm_metadata, "model", None),
                                              provider_usage |->
                                                  Get(llm_metadata, "provider_usage", <<>>),
                                              artifacts |->
                                                  Get(llm_metadata, "artifacts", <<>>)]])>>
                                 \o (IF fallback_attempts # <<>>
                                     THEN <<JobLog("WARNING", "LLM fallback attempts recorded.",
                                                   [attempts |-> fallback_attempts])>>
                                     ELSE <<>>)
                          ELSE <<>>)]

(* Lines 70-80: except LLMProcessingError. *)
on_llm_error(s, exc) ==
    [s EXCEPT
        !.writes = SetDefaults([status |-> "FAILED", error_message |-> exc.message], @),
        !.log = Append(@, JobLog("ERROR", "LLM processing failed.",
                                 [attempts |-> exc.attempts]))]

(* Lines 81-85: except PipelineDependencyError. *)
on_dependency_error(s, exc) ==
    [s EXCEPT
        !.writes = SetDefaults([status |-> "FAILED", error_message |-> exc.message], @),
        !.log = Append(@, JobLog("ERROR", "Missing OCR dependency", <<>>))]

(* Lines 86-90: except Exception. *)
on_exception(s, exc) ==
    [s EXCEPT
        !.writes = SetDefaults([status |-> "FAILED", error_message |-> exc.message], @),
        !.log = Append(@, JobLog("ERROR", "Job failed", <<>>))]

(* A PipelineDependencyError falls through to except Exception. *)
handle_dep_as_other(s, r) ==
    LET t == [s EXCEPT !.outcome = [f \in DOMAIN r \ {"writes"} |-> r[f]]]
    IN  CASE r.kind = "ok"  -> on_success(t, r)
          [] r.kind = "llm" -> on_llm_error(t, r)
          [] OTHER          -> on_exception(t, r)

(* Lines 33-90: the try statement around run, by what run did. *)
handle(s, r) ==
    LET t == [s EXCEPT !.outcome = [f \in DOMAIN r \ {"writes"} |-> r[f]]]
    IN  CASE r.kind = "ok"  -> on_success(t, r)
          [] r.kind = "llm" -> on_llm_error(t, r)
          [] r.kind = "dep" -> on_dependency_error(t, r)
          [] OTHER          -> on_exception(t, r)

(* session.commit(): the attributes set on the job reach its row. *)
commit(row, writes) ==
    [f \in DOMAIN row |-> IF f \in DOMAIN writes THEN writes[f] ELSE row[f]]

(* The row lock the flush of line 31 takes on the job until the session    *)
(* ends: no other worker is between its flush and its commit on that job.  *)
Unlocked(w, job) ==
    \A w2 \in Workers \ {w} : pc[w2] # "idle" => sess[w2].job # job

Init ==
    /\ providers = <<>> /\ cacheEnabled = TRUE /\ cache = <<>> /\ ncalls = 0
    /\ last = NoCall /\ ledger = [hm \in HashModel |-> NoLedger]
    /\ \E setup \in JobSetups :
          jobs = [j \in JobIds |-> NewJob(j, setup[j].filename, setup[j].llm_options)]
    /\ logs = [j \in JobIds |-> <<JobLog("INFO", "File uploaded", <<>>)>>]
    /\ files = <<>>
    /\ pc = [w \in Workers |-> "idle"]
    /\ sess = [w \in Workers |-> NoSession]
    /\ delivered = 0
    /\ ret = NoReturn
    /\ probe = NoProbe

(* process_pdf(arg) where _get_job returns None: lines 24-27, then the     *)
(* commit of a session that changed nothing.                               *)
PickupMissing(w, arg) ==
    /\ pc[w] = "idle"
    /\ delivered < MaxDeliveries
    /\ get_job(jobs, arg) = None
    /\ delivered' = delivered + 1
    /\ ret' = [NoReturn EXCEPT !.n = delivered + 1, !.arg = arg]
    /\ UNCHANGED <<jobs, logs, files, pc, sess>>
    /\ UNCHANGED engineVars
    /\ UNCHANGED probe

(* process_pdf(arg) up to the flush of line 31. *)
Pickup(w, arg) ==
    /\ pc[w] = "idle"
    /\ delivered < MaxDeliveries
    /\ get_job(jobs, arg) # None
    /\ Unlocked(w, get_job(jobs, arg))
    /\ delivered' = delivered + 1
    /\ sess' = [sess EXCEPT ![w] = begin(delivered + 1, arg, get_job(jobs, arg))]
    /\ pc' = [pc EXCEPT ![w] = "run"]
    /\ UNCHANGED <<jobs, logs, files, ret>>
    /\ UNCHANGED engineVars
    /\ UNCHANGED probe

(* What a worker and the results directory become when run has done r.     *)
Ran(w, env, r) ==
    /\ sess' = [sess EXCEPT ![w] = handle([@ EXCEPT !.env = env], r)]
    /\ files' = SetDefaults(r.writes, files)

(* Lines 33-90: OCRPipeline().run and the branch that handles what it did. *)
RunPipeline(w) ==
    /\ pc[w] = "run"
    /\ \E env \in Envs :
          Ran(w, env, run(sess[w].arg, jobs[sess[w].job].input_path,
                          jobs[sess[w].job].llm_options, env))
    /\ pc' = [pc EXCEPT ![w] = "exit"]
    /\ UNCHANGED <<jobs, logs, delivered, ret>>
    /\ UNCHANGED engineVars
    /\ UNCHANGED probe

(* The end of the with block: commit, or rollback when an exception leaves *)
(* it; process_pdf returns.                                                *)
ExitScope(w) ==
    /\ pc[w] = "exit"
    /\ LET s == sess[w]
           row == IF s.raised THEN jobs[s.job] ELSE commit(jobs[s.job], s.writes)
           added == IF s.raised THEN <<>> ELSE s.log
       IN  /\ jobs' = [jobs EXCEPT ![s.job] = row]
           /\ logs' = [logs EXCEPT ![s.job] = @ \o added]
           /\ ret' = [n |-> s.n, arg |-> s.arg, found |-> TRUE, job |-> s.job,
                      outcome |-> s.outcome, before |-> jobs[s.job], row |-> row,
                      log |-> added, env |-> s.env]
    /\ pc' = [pc EXCEPT ![w] = "idle"]
    /\ sess' = [sess EXCEPT ![w] = NoSession]
    /\ UNCHANGED <<files, delivered>>
    /\ UNCHANGED engineVars
    /\ UNCHANGED probe

Next ==
    \E w \in Workers :
        \/ \E arg \in TaskArgs : PickupMissing(w, arg)
        \/ \E arg \in TaskArgs : Pickup(w, arg)
        \/ RunPipeline(w)
        \/ ExitScope(w)

Spec == Init /\ [][Next]_vars

----------------------------------------------------------------------------
(* Properties of the worker (Spec). ret is the invocation of process_pdf   *)
(* that returned last: its argument, whether a job was found, what run     *)
(* did, the job's row before and after the session ended, and the log rows *)
(* the session added.                                                      *)

(* C1: an invocation of process_pdf on an existing job returns with the    *)
(* job's status COMPLETED or FAILED, whatever run did; no committed row    *)
(* has status PROCESSING, and a job an invocation has returned for is in   *)
(* a terminal status.                                                      *)
Thm_C1_TerminalOnReturn ==
    /\ ret.found => ret.row.status \in Terminal /\ jobs[ret.job].status \in Terminal
    /\ \A j \in JobIds : jobs[j].status # "PROCESSING"
    /\ \A j \in JobIds : Len(logs[j]) > 1 => jobs[j].status \in Terminal

(* run raised an exception that is neither of the two pipeline errors and  *)
(* the invocation returned with the job FAILED.                            *)
Wit_C1_FailedAfterException ==
    ret.found /\ ret.outcome.kind = "exc" /\ ret.before.status = "PENDING"
        /\ ret.row.status = "FAILED"

(* C2 as stated: a row whose status is COMPLETED or FAILED keeps that      *)
(* status in every step.                                                   *)
Cex_C2_TerminalIsFinal ==
    [][\A j \in JobIds : jobs[j].status \in Terminal => jobs'[j].status = jobs[j].status]_vars

(* C3: an invocation whose argument is not a well-formed UUID, or names no *)
(* job, returns without changing any job row, log row or result file and   *)
(* without starting the pipeline.                                          *)
Thm_C3_MissingIsNoOp ==
    [][(ret' # ret /\ (ParseUUID(ret'.arg) = None \/ ParseUUID(ret'.arg) \notin JobIds))
          => /\ ~ret'.found
             /\ ret'.outcome = NoOutcome
             /\ jobs' = jobs /\ logs' = logs /\ files' = files
             /\ pc' = pc /\ sess' = sess]_vars

(* A malformed id is delivered after a job has completed. *)
Wit_C3_MalformedAfterCompleted ==
    /\ ret.n = 2 /\ ret.arg = "not-a-uuid" /\ ~ret.found
    /\ \E j \in JobIds : jobs[j].status = "COMPLETED" /\ Len(logs[j]) = 3

(* C4: when run returns, the job is COMPLETED with the result's path and   *)
(* payload, and the session adds the pickup entry, the success entry, the  *)
(* INFO summary iff llm.enabled, the WARNING with llm.fallback_attempts    *)
(* iff enabled and that list is not empty, in this order, and no ERROR.    *)
Thm_C4_SuccessLogs ==
    (ret.found /\ ret.outcome.kind = "ok") =>
        LET llm == ret.outcome.metadata.llm
            entry(level, message, extra) ==
                [level |-> level, message |-> message, extra |-> extra]
            expected ==
                <<entry("INFO", "Job picked up by worker.", <<>>),
                  entry("INFO", "OCR pipeline completed successfully.", <<>>)>>
                  \o (IF llm.enabled
                      THEN <<entry("INFO", "LLM post-processing applied.",
                                   [llm |-> [providers |-> llm.providers,
                                             model |-> llm.model,
                                             provider_usage |-> llm.provider_usage,
                                             artifacts |-> llm.artifacts]])>>
                      ELSE <<>>)
                  \o (IF llm.enabled /\ llm.fallback_attempts # <<>>
                      THEN <<entry("WARNING", "LLM fallback attempts recorded.",
                                   [attempts |-> llm.fallback_attempts])>>
                      ELSE <<>>)
            committed == logs[ret.job]
        IN  /\ ret.row.status = "COMPLETED"
            /\ ret.row.result_path = ret.outcome.output_path
            /\ ret.row.result_payload = ret.outcome.metadata
            /\ ret.log = expected
            /\ \A i \in DOMAIN ret.log : ret.log[i].level # "ERROR"
            /\ SubSeq(committed, Len(committed) - Len(ret.log) + 1, Len(committed)) = ret.log

(* A run with enrichment enabled returned: three entries, the last the     *)
(* INFO summary.                                                           *)
Wit_C4_EnabledSummary ==
    /\ ret.found /\ ret.outcome.kind = "ok" /\ ret.outcome.metadata.llm.enabled
    /\ Len(ret.log) = 3 /\ ret.log[3].message = "LLM post-processing applied."

(* C5: when run raises LLMProcessingError the job is FAILED with the       *)
(* exception's message, result_path and result_payload are as before, and  *)
(* the session adds exactly one ERROR entry, whose extra.attempts is the   *)
(* exception's attempt list.                                               *)
Thm_C5_EnrichmentFailure ==
    (ret.found /\ ret.outcome.kind = "llm") =>
        LET errors == SelectSeq(ret.log, LAMBDA e : e.level = "ERROR")
        IN  /\ ret.row.status = "FAILED"
            /\ ret.row.error_message = ret.outcome.message
            /\ ret.row.result_path = ret.before.result_path
            /\ ret.row.result_payload = ret.before.result_payload
            /\ Len(errors) = 1
            /\ "attempts" \in DOMAIN errors[1].extra
            /\ errors[1].extra.attempts = ret.outcome.attempts

(* Every provider of the chain raised for the page. *)
Wit_C5_AllProvidersRaised ==
    /\ ret.found /\ ret.outcome.kind = "llm"
    /\ ret.row.status = "FAILED" /\ ret.row.error_message = "LLM post-processing failed"
    /\ Len(ret.log) = 2

Cex_C7_QuiescentShape ==
    \A j \in JobIds :
        (\A w \in Workers : pc[w] = "idle" \/ sess[w].job # j) =>
            /\ jobs[j].status = "COMPLETED" =>
                  /\ jobs[j].result_path # None
                  /\ jobs[j].result_payload # <<>>
                  /\ jobs[j].error_message = None
            /\ jobs[j].status = "FAILED" =>
                  /\ jobs[j].error_message # None
                  /\ jobs[j].result_path = None

----------------------------------------------------------------------------
(* The functions of the pipeline on their own: each step applies one of    *)
(* them to arguments drawn from the sets below and keeps the arguments and *)
(* the result in probe.                                                    *)

(* A dict with the given entry unless absent holds. *)
Entry(absent, key, value) == IF absent THEN <<>> ELSE With(<<>>, key, value)

(* llm_options as create_job stores them: each recognised key present or   *)
(* not. A name the pipeline has no default base URL for is "custom".       *)
ProviderNames == {None, "ollama", "openrouter", "custom"}

FallbackLists ==
    { <<>>, <<"ollama">>, <<"openrouter", "ollama", "openrouter">>,
      <<"custom", "agentrouter">>, <<"", "ollama">> }

Flags == {"unset", "true", "false"}

LLMOptions ==
    { SetDefaults(Entry(p = None, "provider", p),
        SetDefaults(Entry(fl = <<>>, "fallback_providers", fl),
          SetDefaults(Entry(fe = "unset", "fallback_enabled", fe = "true"),
            SetDefaults(Entry(en = "unset", "enable_llm", en = "true"),
                        Entry(bu = None, "base_url", bu))))) :
        p \in ProviderNames, fl \in FallbackLists, fe \in Flags,
        en \in {"unset", "false"}, bu \in {None, "http://llm.local/v1"} }

(* Settings with the LLM fields the environment can set. *)
SettingsSets ==
    { [Settings EXCEPT !.llm_provider = p, !.llm_fallback_enabled = f] :
        p \in {None, "ollama", "openrouter"}, f \in BOOLEAN }

PureInit ==
    /\ providers = <<>> /\ cacheEnabled = TRUE /\ cache = <<>> /\ ncalls = 0
    /\ last = NoCall /\ ledger = [hm \in HashModel |-> NoLedger]
    /\ jobs = <<>> /\ logs = <<>> /\ files = <<>> /\ pc = <<>> /\ sess = <<>>
    /\ delivered = 0 /\ ret = <<>>
    /\ probe = NoProbe

(* _build_llm_providers(options) under some settings. *)
ResolveChain ==
    /\ probe = NoProbe
    /\ \E options \in LLMOptions, settings \in SettingsSets :
          probe' = [fn |-> "build_llm_providers", options |-> options,
                    settings |-> settings,
                    result |-> build_llm_providers(options, settings)]
    /\ UNCHANGED engineVars
    /\ UNCHANGED workerVars

(* Layout metadata of a page: no metadata, tables with and without the     *)
(* flags the decision reads, and metadata without tables.                  *)
Layouts ==
    { <<>>, [tables |-> <<>>], [figures |-> <<>>],
      [tables |-> <<[missing_cells |-> TRUE]>>],
      [tables |-> <<[rows |-> <<>>], [gaps |-> TRUE]>>],
      [tables |-> <<[needs_completion |-> TRUE, gaps |-> FALSE]>>],
      [tables |-> <<[missing_cells |-> FALSE, gaps |-> FALSE], [rows |-> <<>>]>>] }

(* OCR confidences in hundredths, on both sides of the threshold. *)
Confidences == {NoConfidence, 0, 50, 84, 85, 86, 100}

(* run, the guard of the page loop: without a post-processor no page is    *)
(* considered for enrichment; with one, _should_run_llm decides.           *)
should_enrich(built, confidence, layout_metadata) ==
    IF built.postprocessor = <<>> THEN FALSE
    ELSE should_run_llm(built.postprocessor, confidence, layout_metadata)

(* The decision for a page under the post-processor the options build. *)
ShouldEnrich ==
    /\ probe = NoProbe
    /\ \E options \in {<<>>, [enable_llm |-> FALSE], [provider |-> "custom"],
                        OneProvider, TwoProviders},
          settings \in SettingsSets, confidence \in Confidences,
          layout_metadata \in Layouts :
          probe' = [fn |-> "should_enrich", options |-> options, settings |-> settings,
                    confidence |-> confidence, layout_metadata |-> layout_metadata,
                    chain |-> build_llm_providers(options, settings),
                    result |-> should_enrich(build_postprocessor(options, settings, {}),
                                             confidence, layout_metadata)]
    /\ UNCHANGED engineVars
    /\ UNCHANGED workerVars

(* OCR output of one page: words, words with the spacing Tesseract keeps,  *)
(* a blank page read as white space, and no text at all.                   *)
OcrPages ==
    { [text |-> t, confidence |-> conf] :
        t \in {"van ban", " van  ban\n", "van", "  ", ""},
        conf \in {NoConfidence, 50, 99} }

(* The post-processors _build_postprocessor gives, and the same with a     *)
(* domain dictionary configured.                                           *)
PostProcessors ==
    { [build_postprocessor(options, Settings, {}).postprocessor
          EXCEPT !.custom_dictionary = d] :
        options \in {OneProvider, TwoProviders}, d \in {<<>>, [van_ban |-> "VB"]} }

(* The engine's cache before the page: empty, or holding a response for    *)
(* the page hash.                                                          *)
PageCaches ==
    { <<>>,
      With(<<>>, cache_key("j1:1", None),
           [kind |-> "response", text |-> "cached", provider |-> "ollama", id |-> <<0, 1>>]) }

(* The arguments of an application together with what it gave. *)
Applied(args, out) ==
    With(With(args, "out", out),
         "final", IF out.kind = "result" THEN final_text(out.result) ELSE None)

(* process_page on one page, then final_text of its result. *)
ProcessPage ==
    /\ probe = NoProbe
    /\ \E pp \in PostProcessors, page \in OcrPages,
          layout_metadata \in {<<>>, [tables |-> <<[gaps |-> TRUE]>>]},
          page_hash \in PageHashes, c \in PageCaches,
          tool \in {NoMatches, [van |-> "vang"]}, faults \in {{}, {"pyvi"}},
          beh \in PageBehaviours :
          probe' = Applied([fn |-> "process_page", pp |-> pp, page |-> page,
                            layout_metadata |-> layout_metadata, page_hash |-> page_hash,
                            cache |-> c, tool |-> tool, faults |-> faults, beh |-> beh],
                           process_page(pp, page, layout_metadata, page_hash, None, c,
                                        tool, faults, beh, 1))
    /\ UNCHANGED engineVars
    /\ UNCHANGED workerVars

(* Artifact values of every shape _decode_artifact tells apart. *)
ArtifactValues ==
    LET texts == {"ZG9jeA==", "abcd", "", "not-base64!!", "van ban", "café"}
        plain == {Val("null", ""), Val("bytes", "docx"), Val("int", ""), Val("list", "")}
                   \cup {Val("str", t) : t \in texts}
        contents == {Val("null", ""), Val("bytes", "docx"), Val("int", ""),
                     Val("str", "aGk="), Val("str", "van ban"), Val("str", "café")}
        encodings == {Val("null", ""), Val("int", "")}
                       \cup {Val("str", e) : e \in {"base64", "utf-8", "text", "UTF-8", "hex"}}
    IN  plain
          \cup {[type |-> "dict", items |-> <<>>]}
          \cup {[type |-> "dict", items |-> [content |-> c]] : c \in contents}
          \cup {[type |-> "dict", items |-> [encoding |-> e]] : e \in encodings}
          \cup {[type |-> "dict", items |-> [content |-> c, encoding |-> e]] :
                   c \in contents, e \in encodings}

(* _decode_artifact on one value. *)
DecodeArtifact ==
    /\ probe = NoProbe
    /\ \E value \in ArtifactValues :
          probe' = [fn |-> "decode_artifact", value |-> value,
                    result |-> decode_artifact(value)]
    /\ UNCHANGED engineVars
    /\ UNCHANGED workerVars

(* The end of run after a page loop that stored the artifacts embedded in  *)
(* one raw response: synthesis, payload, result file.                      *)
FinishRun ==
    /\ probe = NoProbe
    /\ \E raw \in {<<>>, [docx |-> Val("str", "ZG9jeA==")],
                    [xlsx |-> Val("bytes", "xlsx-bytes")],
                    [docx |-> Val("str", "ZG9jeA=="),
                     artifacts |-> [type |-> "dict",
                                    items |-> [xlsx |-> Val("bytes", "xlsx-bytes")]]]},
          pages \in {<<"ok">>, <<"van ban", "ok">>},
          faults \in {{}, {"artifact_export"}, {"docx"}, {"pandas"}, {"docx", "pandas"}} :
          LET stored == StoreArtifacts("0a", extract_artifacts(raw).found,
                                       [artifacts |-> <<>>, writes |-> <<>>])
          IN  probe' = [fn |-> "after_pages", raw |-> raw, pages |-> pages,
                        faults |-> faults, stored |-> stored,
                        out |-> after_pages("0a", [i \in DOMAIN pages |-> PdfPages["one.pdf"][1]],
                                    build_postprocessor(OneProvider, Settings, {}),
                                    [faults |-> faults, tool |-> NoMatches, beh |-> <<>>],
                                    [kind |-> "ok",
                                     acc |-> [NoPages EXCEPT !.corrected_pages = pages,
                                                             !.artifacts = stored.artifacts,
                                                             !.writes = stored.writes]])]
    /\ UNCHANGED engineVars
    /\ UNCHANGED workerVars

(* run on an upload of none, one or two pages, with the options of a job   *)
(* and what the providers do for each page.                                *)
RunOnPdf ==
    /\ probe = NoProbe
    /\ \E filename \in DOMAIN PdfPages,
          llm_options \in {NoLLM, OneProvider, TwoProviders,
                           UnresolvedFirst, UnresolvedOnly, UnresolvedMiddle},
          first \in PageBehaviours, second \in PageBehaviours,
          tool \in {NoMatches, [van |-> "vang"]} :
          LET env == [faults |-> {}, tool |-> tool, beh |-> <<first, second>>]
          IN  probe' = [fn |-> "run", job_id |-> "0a",
                        input_path |-> save_upload("0a", filename),
                        llm_options |-> llm_options, env |-> env,
                        out |-> run("0a", save_upload("0a", filename), llm_options, env)]
    /\ UNCHANGED engineVars
    /\ UNCHANGED workerVars

(* Two calls of enrich on one engine with two providers: the second call   *)
(* finds the cache the first one left. Page text, layout metadata, model   *)
(* and page_hash (absent, empty or given) are drawn for each call.         *)
EnrichTwice ==
    /\ probe = NoProbe
    /\ \E cache_enabled \in BOOLEAN,
          text1 \in PageTexts, text2 \in PageTexts, meta2 \in {None, "{tables}"},
          model1 \in Models, model2 \in Models,
          hash1 \in {None, "", "j1:1"}, hash2 \in {None, "", "j1:1"},
          beh1 \in {b \in PageBehaviours : "raw" \notin DOMAIN b[1]},
          beh2 \in {b \in PageBehaviours : "raw" \notin DOMAIN b[1]} :
          LET chain == <<"openrouter", "ollama">>
              first == enrich(chain, cache_enabled, <<>>, text1, None, model1, hash1, beh1, 1)
          IN  probe' = [fn |-> "enrich", cache_enabled |-> cache_enabled,
                        text |-> <<text1, text2>>, meta |-> <<None, meta2>>,
                        model |-> <<model1, model2>>, page_hash |-> <<hash1, hash2>>,
                        first |-> first,
                        second |-> enrich(chain, cache_enabled, first.cache, text2, meta2,
                                          model2, hash2, beh2, 2)]
    /\ UNCHANGED engineVars
    /\ UNCHANGED workerVars

PureNext ==
    \/ EnrichTwice
    \/ ResolveChain
    \/ ShouldEnrich
    \/ ProcessPage
    \/ DecodeArtifact
    \/ FinishRun
    \/ RunOnPdf

SpecPure == PureInit /\ [][PureNext]_vars

(* C15: in every payload run produces, returned, stored on the job or      *)
(* written to the result file, the top-level artifacts and the artifacts   *)
(* of the llm section are the same mapping.                                *)
Thm_C15_ArtifactsMirrored ==
    /\ (ret.found /\ ret.outcome.kind = "ok") =>
            ret.outcome.metadata.artifacts = ret.outcome.metadata.llm.artifacts
    /\ \A j \in DOMAIN jobs :
            jobs[j].result_payload # <<>> =>
                jobs[j].result_payload.artifacts = jobs[j].result_payload.llm.artifacts
    /\ \A f \in DOMAIN files :
            "json" \in DOMAIN files[f] =>
                files[f].json.artifacts = files[f].json.llm.artifacts

(* A completed job whose payload lists the two synthesized documents. *)
Wit_C15_SynthesizedListed ==
    /\ ret.found /\ ret.outcome.kind = "ok"
    /\ DOMAIN ret.outcome.metadata.artifacts = {"docx", "xlsx"}
    /\ jobs[ret.job].result_payload.llm.artifacts = ret.outcome.metadata.artifacts
    /\ result_path_for(ret.job) \in DOMAIN files

(* C17: when enrichment is enabled and the first provider of the chain     *)
(* returns non-empty text for every page that warrants enrichment, run     *)
(* returns normally, the final_text of each such page is the provider's    *)
(* text, page_details and llm.provider_usage record that provider,         *)
(* llm.fallback_used is false and the job ends COMPLETED.                  *)
Cex_C17_FirstProviderServes ==
    (/\ ret.found /\ ret.env # <<>>
     /\ ret.env.faults = {}
     /\ build_llm_providers(ret.before.llm_options, Settings) # <<>>
     /\ \A i \in DOMAIN ret.env.beh : NonEmpty(ret.env.beh[i][1]))
    => LET chain == build_llm_providers(ret.before.llm_options, Settings)
           pages == OcrResults[ret.before.input_path]
           payload == ret.outcome.metadata
       IN  /\ ret.outcome.kind = "ok"
           /\ ret.row.status = "COMPLETED"
           /\ ~payload.llm.fallback_used
           /\ \A i \in DOMAIN pages :
                  (pages[i].confidence = NoConfidence
                      \/ pages[i].confidence < ConfidenceThreshold)
                  => /\ payload.pages[i] = ret.env.beh[i][1].text
                     /\ payload.page_details[i].final_text = ret.env.beh[i][1].text
                     /\ payload.page_details[i].provider = chain[1]
                     /\ payload.llm.provider_usage[IntStr(i)] = chain[1]

(* C18: for each job at most one invocation of process_pdf sets PROCESSING *)
(* and runs the pipeline: counting the invocations that committed after    *)
(* their pickup and those that have run and not yet left the session       *)
(* scope, no job ever has two.                                             *)
Cex_C18_OneInvocationPerJob ==
    \A j \in JobIds :
        Cardinality({i \in DOMAIN logs[j] :
                        logs[j][i].message = "Job picked up by worker."})
          + Cardinality({w \in Workers : pc[w] = "exit" /\ sess[w].job = j}) <= 1

(* C20: when enrichment raises for a page because the providers are       *)
(* exhausted, run raises LLMProcessingError, nothing is persisted for the  *)
(* job, and the attempts of the error hold one record per provider that    *)
(* was attempted, in chain order (the whole chain, since enrichment only   *)
(* raises after the last provider); an exception raised outside the        *)
(* enrichment call, like a missing spell-check dependency, reaches the     *)
(* worker unchanged and not as LLMProcessingError.                         *)
Cex_C20_AttemptsOnFailure ==
    LET chain == build_llm_providers(ret.before.llm_options, Settings)
    IN  /\ (ret.found /\ ret.outcome.kind = "llm" /\ ret.env.faults = {}) =>
               /\ ret.row.result_path = ret.before.result_path
               /\ ret.row.result_payload = ret.before.result_payload
               /\ Len(ret.outcome.attempts) = Len(chain)
               /\ \A i \in DOMAIN chain :
                      /\ DOMAIN ret.outcome.attempts[i] = {"provider", "status", "error"}
                      /\ ret.outcome.attempts[i].provider = chain[i]
        /\ (ret.found /\ ret.env # <<>>
               /\ ret.env.faults \cap {"language_tool", "pyvi"} # {})
               => ret.outcome.kind # "llm"

(* C21: for every page for which enrichment is invoked and returns, the    *)
(* page's entry in page_details lists, in chain order, exactly the         *)
(* providers that were invoked for the page, each with its status: failed  *)
(* for a provider that raised, success for the one that served the page.   *)
Cex_C21_AttemptsInPageDetails ==
    LET chain == build_llm_providers(ret.before.llm_options, Settings)
        pages == OcrResults[ret.before.input_path]
        Warranted(k) == \/ pages[k].confidence = NoConfidence
                        \/ pages[k].confidence < ConfidenceThreshold
        Served(k) == {i \in DOMAIN chain : NonEmpty(ret.env.beh[k][i])}
        Returns(k) == Served(k) # {}
                        \/ \A i \in DOMAIN chain : ret.env.beh[k][i].kind # "raise"
        Invoked(k) == IF Served(k) = {} THEN Len(chain)
                      ELSE CHOOSE i \in Served(k) : \A j \in Served(k) : i <= j
    IN  (/\ ret.found /\ ret.env # <<>> /\ ret.env.faults = {}
         /\ chain # <<>>
         /\ \E k \in DOMAIN pages : Warranted(k)
         /\ \A k \in DOMAIN pages : Warranted(k) => Returns(k))
        => /\ ret.outcome.kind = "ok"
           /\ \A k \in DOMAIN pages :
                  Warranted(k) =>
                      LET attempts == ret.outcome.metadata.page_details[k].attempts
                      IN  /\ Len(attempts) = Invoked(k)
                          /\ \A i \in 1..Invoked(k) :
                                 /\ attempts[i].provider = chain[i]
                                 /\ ret.env.beh[k][i].kind = "raise"
                                        => attempts[i].status = "failed"
                                 /\ NonEmpty(ret.env.beh[k][i])
                                        => attempts[i].status = "success"

(* C22: in every payload llm.fallback_used is true exactly when a recorded *)
(* attempt of some page has status failed or the provider used for some    *)
(* page is not the first of the chain; and a run in which a page was       *)
(* served by a later provider, after the first one raised or returned      *)
(* blank text, gives a payload in which it is true.                        *)
Cex_C22_FallbackUsed ==
    LET chain == build_llm_providers(ret.before.llm_options, Settings)
        pages == OcrResults[ret.before.input_path]
        Warranted(k) == \/ pages[k].confidence = NoConfidence
                        \/ pages[k].confidence < ConfidenceThreshold
        ServedByLater(k) == /\ ~NonEmpty(ret.env.beh[k][1])
                            /\ \E i \in DOMAIN chain : i > 1 /\ NonEmpty(ret.env.beh[k][i])
    IN  /\ (ret.found /\ ret.outcome.kind = "ok") =>
               LET details == ret.outcome.metadata.page_details
                   failed == \E k \in DOMAIN details : \E a \in DOMAIN details[k].attempts :
                                 details[k].attempts[a].status = "failed"
                   other == \E p \in DOMAIN details :
                                 /\ details[p].provider # None
                                 /\ chain # <<>> /\ details[p].provider # chain[1]
               IN  ret.outcome.metadata.llm.fallback_used = (failed \/ other)
        /\ (/\ ret.found /\ ret.env # <<>> /\ ret.env.faults = {}
            /\ Len(chain) > 1
            /\ \E k \in DOMAIN pages : Warranted(k)
            /\ \A k \in DOMAIN pages : Warranted(k) => ServedByLater(k))
           => (ret.outcome.kind = "ok" /\ ret.outcome.metadata.llm.fallback_used)

(* C24: for each kind, the embedded artifact stored for a job is the one   *)
(* of the lowest-indexed page whose enrichment response carried a          *)
(* decodable artifact of that kind, a top-level key of the response before *)
(* the same key of its nested artifacts: when run has returned, the        *)
(* artifact is listed in the payload and its file holds those bytes.       *)
Cex_C24_FirstEmbeddedWins ==
    LET chain == build_llm_providers(ret.before.llm_options, Settings)
        pages == OcrResults[ret.before.input_path]
        Warranted(k) == \/ pages[k].confidence = NoConfidence
                        \/ pages[k].confidence < ConfidenceThreshold
        Served(k) == {i \in DOMAIN chain : NonEmpty(ret.env.beh[k][i])}
        Response(k) == ret.env.beh[k][CHOOSE i \in Served(k) : \A j \in Served(k) : i <= j]
        Carried(k) == IF Warranted(k) /\ Served(k) # {} /\ "raw" \in DOMAIN Response(k)
                      THEN extract_artifacts(Response(k).raw).found ELSE <<>>
        Has(k, kind) == \E n \in DOMAIN Carried(k) : Carried(k)[n][1] = kind
        First(k, kind) == Carried(k)[CHOOSE n \in DOMAIN Carried(k) :
                                        /\ Carried(k)[n][1] = kind
                                        /\ \A m \in 1..(n - 1) : Carried(k)[m][1] # kind][2]
    IN  (ret.found /\ ret.env # <<>> /\ ret.env.faults = {} /\ chain # <<>>)
        => \A kind \in {"docx", "xlsx"} : \A k \in DOMAIN pages :
              (Has(k, kind) /\ \A j \in 1..(k - 1) : ~Has(j, kind))
              => /\ ret.outcome.kind = "ok"
                 /\ kind \in DOMAIN ret.outcome.metadata.artifacts
                 /\ ret.outcome.metadata.artifacts[kind] \in DOMAIN files
                 /\ files[ret.outcome.metadata.artifacts[kind]] = [bytes |-> First(k, kind)]

(* C25: a failure of an artifact generator never fails the run. With the   *)
(* document generator, the tabular generator or both failing, a run that   *)
(* fails does so for its enrichment, and a run that returns has persisted  *)
(* a payload whose artifacts omit exactly the kinds whose generator        *)
(* failed, the file of the other kind being written (the files are looked  *)
(* at until the next run writes).                                          *)
Thm_C25_GeneratorFailureNotFatal ==
    (ret.found /\ ret.env # <<>> /\ ret.env.faults # {}
        /\ ret.env.faults \subseteq {"docx", "pandas"})
    => LET kinds == (IF "docx" \in ret.env.faults THEN {} ELSE {"docx"})
                      \cup (IF "pandas" \in ret.env.faults THEN {} ELSE {"xlsx"})
       IN  IF ret.outcome.kind = "ok"
           THEN /\ ret.row.status = "COMPLETED"
                /\ DOMAIN ret.outcome.metadata.artifacts = kinds
                /\ ret.row.result_payload = ret.outcome.metadata
                /\ (\A w \in Workers : pc[w] # "exit") =>
                       /\ ret.row.result_path \in DOMAIN files
                       /\ files[ret.row.result_path] = [json |-> ret.outcome.metadata]
                       /\ \A kind \in kinds :
                              /\ ret.outcome.metadata.artifacts[kind] \in DOMAIN files
                              /\ DOMAIN files[ret.outcome.metadata.artifacts[kind]] = {kind}
           ELSE /\ build_llm_providers(ret.before.llm_options, Settings) # <<>>
                /\ OcrResults[ret.before.input_path] # <<>>

(* The document generator failed: the run completed with the spreadsheet only. *)
Wit_C25_DocxOmitted ==
    /\ ret.found /\ ret.env # <<>> /\ ret.env.faults = {"docx"}
    /\ ret.outcome.kind = "ok" /\ ret.row.status = "COMPLETED"
    /\ DOMAIN ret.outcome.metadata.artifacts = {"xlsx"}

(* The tabular generator failed: the run completed with the document only. *)
Wit_C25_XlsxOmitted ==
    /\ ret.found /\ ret.env # <<>> /\ ret.env.faults = {"pandas"}
    /\ ret.outcome.kind = "ok" /\ ret.row.status = "COMPLETED"
    /\ DOMAIN ret.outcome.metadata.artifacts = {"docx"}

(* C26: a linting capability that fails to initialize does not fail the   *)
(* job: normalization passes the tokens through with no corrections. With  *)
(* language_tool_python missing, an invocation ends as the same invocation *)
(* ends with a linting capability that has nothing to suggest: the same    *)
(* outcome of run, and a FAILED row only if that one fails too.            *)
Cex_C26_LintingDegrades ==
    (ret.found /\ ret.env # <<>> /\ ret.env.faults = {"language_tool"})
    => LET same == run(ret.arg, ret.before.input_path, ret.before.llm_options,
                       [ret.env EXCEPT !.faults = {}, !.tool = NoMatches])
       IN  /\ ret.outcome.kind = same.kind
           /\ IF same.kind = "ok"
              THEN /\ ret.outcome.metadata = same.metadata
                   /\ ret.row.status = "COMPLETED"
              ELSE /\ ret.outcome.message = same.message
                   /\ ret.row.error_message = same.message

(* C27: in every payload, of a run with a post-processor or without one    *)
(* (enrichment disabled, no resolvable provider), the spell_checked_text   *)
(* of every page is what SpellChecker.correct makes of the page's text     *)
(* with the domain dictionary applied to it, and the final_text of a page  *)
(* with no enrichment text is that normalized text.                        *)
Cex_C27_NormalizedEveryPage ==
    (ret.found /\ ret.env # <<>> /\ ret.env.faults = {} /\ ret.outcome.kind = "ok")
    => LET pages == OcrResults[ret.before.input_path]
           details == ret.outcome.metadata.page_details
           normalized(k) ==
               apply_internal_dictionary(
                   correct(DefaultSpellCheck, pages[k].text, ret.env.tool,
                           ret.env.faults).corrected_text,
                   <<>>)
       IN  \A k \in DOMAIN pages :
               /\ k \in DOMAIN details
               /\ details[k].spell_checked_text = normalized(k)
               /\ details[k].llm_text = None => details[k].final_text = normalized(k)

(* C32: the response cache lives in the engine a run builds for itself.    *)
(* No call of enrich returns a response cached by another run, of another  *)
(* job or of the same one, before it or interleaved with it on another     *)
(* worker: a run whose first page warrants enrichment and for which every  *)
(* provider of the chain raises has invoked them and ends in               *)
(* LLMProcessingError, whatever other runs have cached.                    *)
Thm_C32_CacheScopedToRun ==
    (ret.found /\ ret.env # <<>> /\ ret.env.faults = {})
    => LET chain == build_llm_providers(ret.before.llm_options, Settings)
           pages == OcrResults[ret.before.input_path]
       IN  (/\ chain # <<>> /\ pages # <<>>
            /\ \/ pages[1].confidence = NoConfidence
               \/ pages[1].confidence < ConfidenceThreshold
            /\ \A i \in DOMAIN chain : ret.env.beh[1][i].kind = "raise")
           => /\ ret.outcome.kind = "llm"
              /\ ret.row.status = "FAILED"
              /\ ret.row.error_message = "LLM post-processing failed"

(* A run in which every provider raised has returned while the run of the  *)
(* other job, whose first provider answered, is still in its session on    *)
(* the other worker.                                                       *)
Wit_C32_OtherJobInFlight ==
    /\ ret.found /\ ret.outcome.kind = "llm"
    /\ \E w \in Workers :
          /\ pc[w] = "exit" /\ sess[w].job # ret.job
          /\ sess[w].env.faults = {}
          /\ sess[w].env.beh[1][1].kind = "resp" /\ sess[w].env.beh[1][1].text = "ok"
          /\ build_llm_providers(jobs[sess[w].job].llm_options, Settings) # <<>>
          /\ sess[w].outcome.kind = "exc"

(* The same job was run before and a provider answered in that run; in the *)
(* redelivered run every provider raised.                                  *)
Wit_C32_SameJobAgain ==
    /\ ret.found /\ ret.outcome.kind = "llm"
    /\ ret.before.status = "FAILED"
    /\ ret.before.error_message = "'PostProcessingResult' object has no attribute 'attempts'"

(* C34: in every payload an entry of llm.fallback_attempts is that of a    *)
(* page with a failed attempt; and a run in which every page sent to       *)
(* enrichment is served by the first provider of the chain returns a       *)
(* payload with an empty llm.fallback_attempts, after which the worker     *)
(* completes the job and appends no WARNING entry.                         *)
Cex_C34_FallbackAttemptsOnlyOnFailure ==
    (ret.found /\ ret.env # <<>> /\ ret.env.faults = {})
    => LET chain == build_llm_providers(ret.before.llm_options, Settings)
           pages == OcrResults[ret.before.input_path]
           Warranted(k) == \/ pages[k].confidence = NoConfidence
                           \/ pages[k].confidence < ConfidenceThreshold
       IN  /\ ret.outcome.kind = "ok" =>
                  \A r \in DOMAIN ret.outcome.metadata.llm.fallback_attempts :
                      \E a \in DOMAIN ret.outcome.metadata.llm.fallback_attempts[r].attempts :
                          ret.outcome.metadata.llm.fallback_attempts[r].attempts[a].status
                              = "failed"
           /\ (/\ chain # <<>>
               /\ \E k \in DOMAIN pages : Warranted(k)
               /\ \A k \in DOMAIN pages : Warranted(k) => NonEmpty(ret.env.beh[k][1]))
              => /\ ret.outcome.kind = "ok"
                 /\ ret.outcome.metadata.llm.fallback_attempts = <<>>
                 /\ ret.row.status = "COMPLETED"
                 /\ \A i \in DOMAIN ret.log : ret.log[i].level # "WARNING"

(* C35: in an invocation of process_pdf on an existing job, when run       *)
(* starts the status has been set to PROCESSING, the pickup entry appended *)
(* and the session flushed (the row is held against the other worker) and  *)
(* nothing else done; run is invoked once: the invocation goes from the    *)
(* pickup to run, from run to the end of the session and from there to its *)
(* return, with what run did, returned or raised, never to run again.      *)
Thm_C35_RunOnceAfterPickup ==
    /\ [](\A w \in Workers :
             /\ pc[w] = "run" =>
                    /\ sess[w].writes = [status |-> "PROCESSING"]
                    /\ sess[w].log = <<JobLog("INFO", "Job picked up by worker.", <<>>)>>
                    /\ sess[w].outcome = NoOutcome
                    /\ sess[w].job \in JobIds
                    /\ \A w2 \in Workers \ {w} : ~Unlocked(w2, sess[w].job)
             /\ pc[w] = "exit" =>
                    /\ sess[w].outcome # NoOutcome
                    /\ sess[w].log[1] = JobLog("INFO", "Job picked up by worker.", <<>>)
                    /\ Len(sess[w].log) >= 2)
    /\ [][\A w \in Workers :
             /\ (pc[w] = "idle" /\ pc'[w] # "idle") => pc'[w] = "run"
             /\ (pc[w] = "run" /\ pc'[w] # "run") =>
                    (pc'[w] = "exit" /\ sess'[w].n = sess[w].n)
             /\ pc[w] = "exit" =>
                    \/ pc'[w] = "exit" /\ sess'[w] = sess[w]
                    \/ /\ pc'[w] = "idle"
                       /\ ret'.n = sess[w].n /\ ret'.outcome = sess[w].outcome]_vars

(* run raised and the invocation has returned; no worker is in a session.  *)
Wit_C35_ReturnedAfterRaise ==
    /\ ret.found /\ ret.outcome.kind \in {"llm", "dep", "exc"}
    /\ ret.log[1] = JobLog("INFO", "Job picked up by worker.", <<>>)
    /\ ret.row.status = "FAILED"
    /\ \A w \in Workers : pc[w] = "idle"

(* A worker has flushed the pickup and run has not started. *)
Wit_C35_BeforeRun ==
    \E w \in Workers :
        /\ pc[w] = "run" /\ sess[w].writes = [status |-> "PROCESSING"]
        /\ jobs[sess[w].job].status = "PENDING"

Wit_C39_RaisedAtTheEnd ==
    /\ ret.found /\ ret.outcome.kind = "exc" /\ ret.env.faults = {"disk"}
    /\ ret.outcome.message = "No space left on device"
    /\ result_path_for(ret.arg) \notin DOMAIN files

(* The job completed in one run and failed in the next: the result file is *)
(* the one of the first run.                                               *)
Wit_C39_EarlierResultKept ==
    /\ ret.found /\ ret.outcome.kind # "ok"
    /\ ret.before.status = "COMPLETED"
    /\ result_path_for(ret.arg) \in DOMAIN files
    /\ files[result_path_for(ret.arg)] = [json |-> ret.before.result_payload]

----------------------------------------------------------------------------
(* Properties of the functions of the pipeline (SpecPure).                 *)

(* C11, amended: the resolved chain holds no identifier twice; the primary *)
(* provider, when it is in the chain, is first, and it is in the chain     *)
(* whenever enrichment is enabled and a base URL resolves for it; the      *)
(* fallbacks follow in their configured order, later duplicates dropped;   *)
(* a primary ollama with a fallback ollama gives a chain of length 1.      *)
Thm_C11_ChainDeduplicated ==
    probe.fn = "build_llm_providers" =>
        LET chain == probe.result
            options == probe.options
            primary == IF "provider" \in DOMAIN options THEN options.provider
                       ELSE probe.settings.llm_provider
            listed == IF "fallback_providers" \in DOMAIN options
                      THEN options.fallback_providers ELSE <<>>
            enabled == "enable_llm" \notin DOMAIN options
            First(name) == CHOOSE i \in DOMAIN listed :
                              listed[i] = name /\ \A k \in 1..(i - 1) : listed[k] # name
        IN  /\ \A i, j \in DOMAIN chain : i # j => chain[i] # chain[j]
            /\ \A i \in DOMAIN chain : chain[i] = primary => i = 1
            /\ (enabled /\ (primary \in {"ollama", "openrouter", "agentrouter"}
                              \/ (primary # None /\ "base_url" \in DOMAIN options)))
                  => (chain # <<>> /\ chain[1] = primary)
            /\ \A i \in DOMAIN chain :
                  chain[i] # primary =>
                      \/ \E k \in DOMAIN listed : listed[k] = chain[i]
                      \/ (listed = <<>> /\ chain[i] = "ollama")
            /\ \A i, j \in DOMAIN chain :
                  (i < j /\ chain[i] # primary /\ chain[j] # primary)
                      => First(chain[i]) < First(chain[j])
            /\ (primary = "ollama" /\ listed = <<"ollama">>) => Len(chain) <= 1
            /\ (primary = "ollama" /\ listed = <<"ollama">> /\ enabled) => Len(chain) = 1

(* A primary ollama with the explicit fallback ollama: one provider. *)
Wit_C11_OllamaTwice ==
    /\ probe.fn = "build_llm_providers"
    /\ "provider" \in DOMAIN probe.options /\ probe.options.provider = "ollama"
    /\ "fallback_providers" \in DOMAIN probe.options
    /\ probe.options.fallback_providers = <<"ollama">>
    /\ probe.result = <<"ollama">>

(* C11 as stated: a configured primary is at the head of every resolved    *)
(* chain that is not empty.                                                *)
Cex_C11_PrimaryAlwaysFirst ==
    (probe.fn = "build_llm_providers" /\ probe.result # <<>>) =>
        LET primary == IF "provider" \in DOMAIN probe.options THEN probe.options.provider
                       ELSE probe.settings.llm_provider
        IN  primary # None => probe.result[1] = primary

(* C12: should_enrich is false when enrichment is disabled or no provider  *)
(* resolved; otherwise it is true exactly when the confidence is null, or  *)
(* strictly below the threshold, or a table of the layout metadata is      *)
(* flagged missing_cells, gaps or needs_completion.                        *)
Thm_C12_ShouldEnrich ==
    probe.fn = "should_enrich" =>
        LET options == probe.options
            layout == probe.layout_metadata
            disabled == "enable_llm" \in DOMAIN options /\ ~options.enable_llm
            Flag(table, key) == key \in DOMAIN table /\ table[key]
            flagged == /\ "tables" \in DOMAIN layout
                       /\ \E i \in DOMAIN layout.tables :
                             \/ Flag(layout.tables[i], "missing_cells")
                             \/ Flag(layout.tables[i], "gaps")
                             \/ Flag(layout.tables[i], "needs_completion")
        IN  probe.result =
                IF disabled \/ probe.chain = <<>> THEN FALSE
                ELSE \/ probe.confidence = NoConfidence
                     \/ probe.confidence < ConfidenceThreshold
                     \/ flagged

(* A confident page enriched because of a table with gaps. *)
Wit_C12_FlaggedTable ==
    /\ probe.fn = "should_enrich" /\ probe.result
    /\ probe.confidence = 100
    /\ probe.layout_metadata = [tables |-> <<[rows |-> <<>>], [gaps |-> TRUE]>>]

(* A confidence equal to the threshold, no flagged table: no enrichment. *)
Wit_C12_AtThreshold ==
    /\ probe.fn = "should_enrich" /\ ~probe.result
    /\ probe.confidence = ConfidenceThreshold /\ probe.chain # <<>>
    /\ probe.layout_metadata = [tables |-> <<>>]

Wit_C13_NormalizedText ==
    /\ probe.fn = "process_page" /\ probe.out.kind = "result"
    /\ probe.out.result.llm_text = None
    /\ probe.final = "vang"

(* C14: a page whose original_text is not empty has a final_text that is   *)
(* not empty, whatever the tokens, the dictionary and the enrichment       *)
(* outcome.                                                                *)
Cex_C14_FinalTextNonEmpty ==
    (probe.fn = "process_page" /\ probe.out.kind = "result"
        /\ probe.out.result.original_text # "")
        => probe.final # ""

(* C16: process_page normalizes, maps, decides, then enriches. The text    *)
(* handed to the engine is the dictionary-mapped normalized text;          *)
(* spell_checked_text is that text whether or not enrichment ran; llm_text *)
(* and provider are those of the response enrich returned, and null when   *)
(* enrich was not run or returned null.                                    *)
Thm_C16_StageOrder ==
    probe.fn = "process_page" =>
        LET out == probe.out
            pp == probe.pp
            normalized == correct(pp.spell_check, probe.page.text, probe.tool, probe.faults)
            mapped == apply_internal_dictionary(normalized.corrected_text,
                                                pp.custom_dictionary)
            meta == IF DOMAIN probe.layout_metadata = {} THEN None ELSE "{tables}"
            runs == should_run_llm(pp, probe.page.confidence, probe.layout_metadata)
            e == enrich(pp.chain, pp.cache_enabled, probe.cache, mapped, meta, None,
                        probe.page_hash, probe.beh, 1)
        IN  IF normalized.kind = "raise"
            THEN out.kind = "raise" /\ out.invoked = <<>> /\ out.cache = probe.cache
            ELSE IF ~runs
            THEN /\ out.kind = "result"
                 /\ out.result.spell_checked_text = mapped
                 /\ out.result.llm_text = None /\ out.result.provider = None
                 /\ out.invoked = <<>> /\ out.cache = probe.cache
            ELSE IF e.result.kind = "raise"
            THEN out.kind = "raise" /\ out.invoked = e.invoked
            ELSE /\ out.kind = "result"
                 /\ out.result.spell_checked_text = mapped
                 /\ out.result.original_text = probe.page.text
                 /\ out.invoked = e.invoked /\ out.cache = e.cache
                 /\ e.result.kind = "response" =>
                        /\ out.result.llm_text = e.result.text
                        /\ out.result.provider = e.result.provider
                 /\ e.result.kind = "null" =>
                        /\ out.result.llm_text = None
                        /\ out.result.provider = None
                 /\ (probe.page_hash = None /\ pp.cache_enabled
                        /\ out.result.llm_text # None) =>
                        cache_key(prompt_from_context(out.result.spell_checked_text, meta),
                                  None) \in DOMAIN out.cache

(* A page whose raw text, normalized text and mapped text all differ, is   *)
(* enriched under a key made of the mapped text.                           *)
Wit_C16_MappedTextHandedOver ==
    /\ probe.fn = "process_page" /\ probe.out.kind = "result"
    /\ probe.page.text = " van  ban\n" /\ probe.page_hash = None
    /\ probe.out.result.spell_checked_text = "VB"
    /\ probe.out.result.llm_text = "ok" /\ probe.out.result.provider = "openrouter"
    /\ cache_key(prompt_from_context("VB", None), None) \in DOMAIN probe.out.cache

(* A confident page: the mapped text is kept, enrichment is not run. *)
Wit_C16_NotEnriched ==
    /\ probe.fn = "process_page" /\ probe.out.kind = "result"
    /\ probe.page.confidence = 99 /\ probe.out.result.spell_checked_text = "VB"
    /\ probe.out.result.llm_text = None /\ probe.out.result.provider = None

(* C19: decode returns bytes unchanged; a text value base64-decoded, or    *)
(* as its UTF-8 bytes when base64 decoding fails; for {content, encoding}  *)
(* the same for encoding base64 (the default) and the UTF-8 bytes of       *)
(* content for encoding utf-8 or text; null for every other shape (null,   *)
(* numbers, lists, another encoding, no content).                          *)
Cex_C19_DecodeDispatch ==
    probe.fn = "decode_artifact" =>
        LET value == probe.value
            Text(t) == IF b64decode(t).kind = "bytes" THEN b64decode(t)
                       ELSE Decoded("bytes", encode_utf8(t), "")
            content == IF "content" \in DOMAIN value.items THEN value.items.content
                       ELSE Val("null", "")
            encoding == IF "encoding" \in DOMAIN value.items THEN value.items.encoding
                        ELSE Val("str", "base64")
        IN  probe.result =
                CASE value.type = "bytes" -> Decoded("bytes", value.value, "")
                  [] value.type = "str" -> Text(value.value)
                  [] value.type = "dict" /\ content.type = "bytes" ->
                         Decoded("bytes", content.value, "")
                  [] value.type = "dict" /\ content.type = "str"
                        /\ encoding = Val("str", "base64") -> Text(content.value)
                  [] value.type = "dict" /\ content.type = "str"
                        /\ encoding \in {Val("str", "utf-8"), Val("str", "text"),
                                          Val("str", "UTF-8")} ->
                         Decoded("bytes", encode_utf8(content.value), "")
                  [] OTHER -> Decoded("null", "", "")

Thm_C28_PagesInIndexOrder ==
    probe.fn = "run"
    => LET results == OcrResults[probe.input_path]
           built == build_postprocessor(probe.llm_options, Settings, probe.env.faults)
           upto(k) == with_postprocessor(probe.job_id, SubSeq(results, 1, k), probe.env, built)
       IN  IF probe.out.kind = "ok"
           THEN LET payload == probe.out.metadata
                IN  /\ Len(payload.raw_pages) = Len(results)
                    /\ Len(payload.pages) = Len(results)
                    /\ Len(payload.page_details) = Len(results)
                    /\ \A k \in DOMAIN results :
                           /\ payload.page_details[k].page = k
                           /\ payload.page_details[k].raw_text = results[k].text
                           /\ payload.raw_pages[k] = results[k].text
                           /\ payload.pages[k] = payload.page_details[k].final_text
                           /\ upto(k).kind = "ok"
                           /\ upto(k).metadata.page_details
                                  = SubSeq(payload.page_details, 1, k)
           ELSE \E k \in DOMAIN results :
                    /\ \A j \in 1..(k - 1) : upto(j).kind = "ok"
                    /\ upto(k) = probe.out
                    /\ \A later \in PageBehaviours :
                           k < Len(results) =>
                               run(probe.job_id, probe.input_path, probe.llm_options,
                                   [probe.env EXCEPT !.beh[k + 1] = later]) = probe.out

(* A run on two pages returned: its payload has the two entries in order.  *)
Wit_C28_TwoPagesInOrder ==
    /\ probe.fn = "run" /\ probe.out.kind = "ok"
    /\ Len(OcrResults[probe.input_path]) = 2
    /\ Len(probe.out.metadata.page_details) = 2
    /\ probe.out.metadata.page_details[2].page = 2
    /\ probe.out.metadata.pages[2] = OcrResults[probe.input_path][2].text

(* A run on two pages with a post-processor ended at its first page.       *)
Wit_C28_EndedAtFirstPage ==
    /\ probe.fn = "run" /\ probe.out.kind # "ok"
    /\ Len(OcrResults[probe.input_path]) = 2
    /\ build_llm_providers(probe.llm_options, Settings) # <<>>

(* C29: a named provider no base URL resolves for is left out of the       *)
(* chain and nothing fails for it. The chain holds only names a base URL   *)
(* resolves for; with enrichment enabled every named provider that         *)
(* resolves is in it, in the order primary, then fallbacks as listed; and  *)
(* a run whose options name an unresolved provider goes exactly as the run *)
(* with the remaining providers alone, calls to them included, and never   *)
(* ends in a dependency error.                                             *)
Thm_C29_UnresolvedSkipped ==
    /\ probe.fn = "build_llm_providers" =>
           LET chain == probe.result
               options == probe.options
               primary == IF "provider" \in DOMAIN options THEN options.provider
                          ELSE probe.settings.llm_provider
               listed == IF "fallback_providers" \in DOMAIN options
                         THEN options.fallback_providers ELSE <<>>
               named == <<primary>> \o listed \o <<"ollama">>
               Resolves(name) == \/ name \in {"ollama", "openrouter", "agentrouter"}
                                 \/ "base_url" \in DOMAIN options
                                 \/ probe.settings.llm_base_url # None
               Pos(name) == CHOOSE i \in DOMAIN named :
                               named[i] = name /\ \A k \in 1..(i - 1) : named[k] # name
           IN  /\ \A i \in DOMAIN chain : Resolves(chain[i])
               /\ "enable_llm" \notin DOMAIN options =>
                      \A k \in 1..(Len(named) - 1) :
                          (named[k] \notin {None, ""} /\ Resolves(named[k]))
                              => \E i \in DOMAIN chain : chain[i] = named[k]
               /\ \A i, j \in DOMAIN chain : i < j => Pos(chain[i]) < Pos(chain[j])
    /\ probe.fn = "run" =>
           LET Same(remaining) ==
                   /\ probe.out.kind # "dep"
                   /\ probe.out = run(probe.job_id, probe.input_path, remaining, probe.env)
           IN  /\ probe.llm_options = UnresolvedFirst => Same(OneProvider)
               /\ probe.llm_options = UnresolvedMiddle => Same(TwoProviders)
               /\ probe.llm_options = UnresolvedOnly =>
                      (Same(NoLLM) /\ probe.out.kind = "ok")

(* The primary has no base URL, the fallbacks have: the chain is the       *)
(* fallbacks that resolve, in their order.                                 *)
Wit_C29_PrimaryLeftOut ==
    /\ probe.fn = "build_llm_providers"
    /\ "provider" \in DOMAIN probe.options /\ probe.options.provider = "custom"
    /\ "fallback_providers" \in DOMAIN probe.options
    /\ probe.options.fallback_providers = <<"openrouter", "ollama", "openrouter">>
    /\ "base_url" \notin DOMAIN probe.options
    /\ probe.result = <<"openrouter", "ollama">>

(* A run whose only named provider has no base URL completed. *)
Wit_C29_RunCompleted ==
    /\ probe.fn = "run" /\ probe.llm_options = UnresolvedOnly
    /\ probe.out.kind = "ok"
    /\ probe.out.metadata.llm.providers = <<>>
    /\ Len(probe.out.metadata.page_details) = 2

(* The provider after the unresolved one was called and raised. *)
Wit_C29_RemainingAttempted ==
    /\ probe.fn = "run" /\ probe.llm_options = UnresolvedFirst
    /\ probe.out.kind = "llm"

(* C30: when the chain is resolved (enrichment not disabled) and the       *)
(* options give no explicit fallback list, the chain is the primary, if    *)
(* there is one and a base URL resolves for it, followed by ollama exactly *)
(* when fallback is enabled (the job's option true, or the option unset    *)
(* and the process default enabled) and the primary is not ollama; with    *)
(* fallback disabled the chain holds nothing but the primary.              *)
Thm_C30_ImplicitFallback ==
    (/\ probe.fn = "build_llm_providers"
     /\ "fallback_providers" \notin DOMAIN probe.options
     /\ "enable_llm" \notin DOMAIN probe.options)
    => LET chain == probe.result
           options == probe.options
           primary == IF "provider" \in DOMAIN options THEN options.provider
                      ELSE probe.settings.llm_provider
           enabled == IF "fallback_enabled" \in DOMAIN options
                      THEN options.fallback_enabled
                      ELSE probe.settings.llm_fallback_enabled
           resolves == /\ primary # None
                       /\ \/ primary \in {"ollama", "openrouter", "agentrouter"}
                          \/ "base_url" \in DOMAIN options
           head == IF resolves THEN <<primary>> ELSE <<>>
           implicit == \E i \in DOMAIN chain :
                          chain[i] = "ollama" /\ i = Len(head) + 1
       IN  /\ implicit <=> (enabled /\ primary # "ollama")
           /\ chain = head \o (IF implicit THEN <<"ollama">> ELSE <<>>)
           /\ ~enabled => chain = head

(* The option is unset and the process default enables fallback: ollama    *)
(* follows the primary.                                                    *)
Wit_C30_DefaultEnablesFallback ==
    /\ probe.fn = "build_llm_providers"
    /\ DOMAIN probe.options = {"provider"} /\ probe.options.provider = "openrouter"
    /\ probe.settings.llm_fallback_enabled
    /\ probe.result = <<"openrouter", "ollama">>

(* The job's option disables the fallback the process default enables.     *)
Wit_C30_OptionDisablesFallback ==
    /\ probe.fn = "build_llm_providers"
    /\ DOMAIN probe.options = {"provider", "fallback_enabled"}
    /\ probe.options.provider = "openrouter" /\ ~probe.options.fallback_enabled
    /\ probe.settings.llm_fallback_enabled
    /\ probe.result = <<"openrouter">>

(* Fallback is enabled and the primary is ollama: nothing is appended.     *)
Wit_C30_PrimaryOllama ==
    /\ probe.fn = "build_llm_providers"
    /\ DOMAIN probe.options = {"provider", "fallback_enabled"}
    /\ probe.options.provider = "ollama" /\ probe.options.fallback_enabled
    /\ probe.result = <<"ollama">>

Wit_C31_EnabledOneProvider ==
    /\ probe.fn = "run" /\ probe.out.kind = "ok"
    /\ probe.out.metadata.llm.enabled
    /\ ~probe.out.metadata.llm.fallback_configured
    /\ probe.out.metadata.llm.providers = <<"ollama">>

(* A payload of a run no provider resolved for. *)
Wit_C31_NotEnabled ==
    /\ probe.fn = "run" /\ probe.out.kind = "ok"
    /\ ~probe.out.metadata.llm.enabled
    /\ probe.out.metadata.llm.providers = <<>>
    /\ probe.llm_options = UnresolvedOnly

(* C33: a page whose confidence is known and not below the threshold (run *)
(* passes no layout metadata, so no table is incomplete) has no provider   *)
(* invoked for it: the run of an upload with such pages only returns the   *)
(* same whatever the providers would do, and its payload has for each page *)
(* the normalized text as final_text, a null provider and no attempts.     *)
Cex_C33_ConfidentPageNotEnriched ==
    probe.fn = "run"
    => LET pages == OcrResults[probe.input_path]
           normalized(k) ==
               apply_internal_dictionary(
                   correct(DefaultSpellCheck, pages[k].text, probe.env.tool,
                           probe.env.faults).corrected_text,
                   <<>>)
       IN  (/\ pages # <<>>
            /\ \A k \in DOMAIN pages :
                   /\ pages[k].confidence # NoConfidence
                   /\ pages[k].confidence >= ConfidenceThreshold)
           => /\ \A first \in PageBehaviours, second \in PageBehaviours :
                     run(probe.job_id, probe.input_path, probe.llm_options,
                         [probe.env EXCEPT !.beh = <<first, second>>]) = probe.out
              /\ probe.out.kind = "ok"
              /\ \A k \in DOMAIN pages :
                     LET detail == probe.out.metadata.page_details[k]
                     IN  /\ detail.final_text = normalized(k)
                         /\ detail.provider = None
                         /\ detail.llm_text = None
                         /\ detail.attempts = <<>>

(* C36: when a page is sent to enrichment, nothing is cached for it and    *)
(* every provider of the chain returns an empty or white-space text, none  *)
(* raising, every provider has been invoked in chain order, enrich returns *)
(* None without raising and caches nothing, and the page has no llm_text,  *)
(* no provider, and its normalized text as final_text.                     *)
Thm_C36_AllBlankFallsBack ==
    (/\ probe.fn = "process_page"
     /\ probe.faults = {}
     /\ probe.cache = <<>>
     /\ should_run_llm(probe.pp, probe.page.confidence, probe.layout_metadata)
     /\ probe.pp.chain # <<>>
     /\ \A i \in DOMAIN probe.pp.chain :
            probe.beh[i].kind = "resp" /\ Strip(probe.beh[i].text) = "")
    => /\ probe.out.kind = "result"
       /\ probe.out.cache = <<>>
       /\ Len(probe.out.invoked) = Len(probe.pp.chain)
       /\ \A i \in DOMAIN probe.pp.chain :
              /\ probe.out.invoked[i].provider = probe.pp.chain[i]
              /\ probe.out.invoked[i].status = "empty"
       /\ probe.out.result.llm_text = None
       /\ probe.out.result.provider = None
       /\ probe.out.result.spell_checked_text =
              apply_internal_dictionary(
                  correct(probe.pp.spell_check, probe.page.text, probe.tool,
                          probe.faults).corrected_text,
                  probe.pp.custom_dictionary)
       /\ probe.final = probe.out.result.spell_checked_text

(* Two providers answered with blank texts; the page keeps its normalized  *)
(* text, the dictionary applied.                                           *)
Wit_C36_TwoBlankAnswers ==
    /\ probe.fn = "process_page" /\ probe.faults = {} /\ probe.cache = <<>>
    /\ Len(probe.pp.chain) = 2 /\ Len(probe.out.invoked) = 2
    /\ probe.out.invoked[2].status = "empty"
    /\ probe.out.kind = "result" /\ probe.out.result.llm_text = None
    /\ probe.page.text = "van ban" /\ probe.final = "VB"

(* C38: with a page_hash given the cache key is made of page_hash and      *)
(* model alone: two calls with the same page_hash and model have the same  *)
(* key whatever their page texts and layout metadata, and with caching     *)
(* enabled the second returns the response the first one cached and        *)
(* invokes no provider. The prompt is the key material exactly when        *)
(* page_hash is absent or empty: two such calls have the same key only     *)
(* with the same text, layout metadata and model, and a call with a        *)
(* page_hash never shares its key with a call without one.                 *)
Thm_C38_KeyFromPageHash ==
    probe.fn = "enrich"
    => LET given1 == Truthy(probe.page_hash[1])
           given2 == Truthy(probe.page_hash[2])
           same_model == probe.model[1] = probe.model[2]
           same_prompt == probe.text[1] = probe.text[2] /\ probe.meta[1] = probe.meta[2]
           same_key == probe.first.key = probe.second.key
       IN  /\ (given1 /\ given2) =>
                  (same_key <=> (probe.page_hash[1] = probe.page_hash[2] /\ same_model))
           /\ (~given1 /\ ~given2) => (same_key <=> (same_prompt /\ same_model))
           /\ (given1 # given2) => ~same_key
           /\ (/\ probe.cache_enabled /\ given1
               /\ probe.page_hash[1] = probe.page_hash[2] /\ same_model
               /\ probe.first.result.kind = "response")
              => /\ probe.second.hit
                 /\ probe.second.invoked = <<>>
                 /\ probe.second.result = probe.first.result
                 /\ probe.second.cache = probe.first.cache
           /\ probe.second.hit => (probe.cache_enabled /\ same_key)

(* The second call has the page_hash and model of the first, another text  *)
(* and other layout metadata: it is served the response cached for the     *)
(* first text.                                                             *)
Wit_C38_HitWithOtherText ==
    /\ probe.fn = "enrich" /\ probe.cache_enabled
    /\ probe.page_hash = <<"j1:1", "j1:1">> /\ probe.model[1] = probe.model[2]
    /\ probe.text[1] # probe.text[2] /\ probe.meta[1] # probe.meta[2]
    /\ probe.second.hit /\ probe.second.invoked = <<>>
    /\ probe.second.result = probe.first.result
    /\ probe.first.result.id = <<1, 2>>

(* No page_hash: the call with another text misses the cache. *)
Wit_C38_PromptKeyMisses ==
    /\ probe.fn = "enrich" /\ probe.cache_enabled
    /\ probe.page_hash[1] = None /\ probe.page_hash[2] = ""
    /\ probe.model[1] = probe.model[2] /\ probe.text[1] # probe.text[2]
    /\ probe.first.result.kind = "response"
    /\ ~probe.second.hit /\ probe.second.invoked # <<>>

(* C40: in every payload run assembles, each key of llm.provider_usage is  *)
(* the index of a processed page and each value is one of llm.providers;   *)
(* a page is in llm.provider_usage exactly when its page_details entry has *)
(* a provider, which is exactly when it has an llm_text. The result of     *)
(* process_page, from which the entry of an enriched page is read, has a   *)
(* provider exactly when it has an llm_text, and the provider is one of    *)
(* the engine's chain when the responses in its cache are.                 *)
Thm_C40_ProviderUsageMatchesPages ==
    /\ (probe.fn = "run" /\ probe.out.kind = "ok")
        => LET details == probe.out.metadata.page_details
               llm == probe.out.metadata.llm
           IN  /\ \A s \in DOMAIN llm.provider_usage :
                      /\ \E i \in DOMAIN details : IntStr(details[i].page) = s
                      /\ InSeq(llm.provider_usage[s], llm.providers)
               /\ \A i \in DOMAIN details :
                      /\ (IntStr(details[i].page) \in DOMAIN llm.provider_usage)
                             <=> (details[i].provider # None)
                      /\ (details[i].provider # None) <=> (details[i].llm_text # None)
                      /\ details[i].provider # None
                             => llm.provider_usage[IntStr(details[i].page)]
                                   = details[i].provider
    /\ (probe.fn = "process_page" /\ probe.out.kind = "result")
        => LET post_result == probe.out.result
           IN  /\ (post_result.provider # None) <=> (post_result.llm_text # None)
               /\ (/\ post_result.provider # None
                    /\ \A k \in DOMAIN probe.cache :
                           InSeq(probe.cache[k].provider, probe.pp.chain))
                      => InSeq(post_result.provider, probe.pp.chain)

(* A payload of two pages: no page has a provider or an llm_text, and      *)
(* llm.provider_usage is empty.                                            *)
Wit_C40_TwoPagesNoProvider ==
    /\ probe.fn = "run" /\ probe.out.kind = "ok"
    /\ Len(probe.out.metadata.page_details) = 2
    /\ \A i \in 1..2 : /\ probe.out.metadata.page_details[i].provider = None
                        /\ probe.out.metadata.page_details[i].llm_text = None
    /\ DOMAIN probe.out.metadata.llm.provider_usage = {}

(* process_page gave a page the text and the name of the second provider   *)
(* of the chain.                                                           *)
Wit_C40_PageServedBySecond ==
    /\ probe.fn = "process_page" /\ probe.out.kind = "result"
    /\ Len(probe.pp.chain) = 2
    /\ probe.out.result.provider = probe.pp.chain[2]
    /\ probe.out.result.llm_text # None

(* process_page sent the page to the engine and no provider answered:      *)
(* neither provider nor llm_text.                                          *)
Wit_C40_PageNotServed ==
    /\ probe.fn = "process_page" /\ probe.out.kind = "result"
    /\ probe.out.invoked # <<>>
    /\ probe.out.result.provider = None /\ probe.out.result.llm_text = None

----------------------------------------------------------------------------
(* Properties of the engine (SpecEngine).                                  *)

(* C8: with caching enabled, once a call with a given page_hash and model  *)
(* has returned a response, every later call with that page_hash and model *)
(* returns that very response (same identity) and invokes no provider, so  *)
(* exactly one response is ever generated for the pair; and an entry of    *)
(* the cache is never replaced or removed by a call.                       *)
Thm_C8_CacheIdempotent ==
    cacheEnabled =>
        /\ \A hm \in HashModel :
              Truthy(hm[1]) =>
                  /\ ~ledger[hm].stale
                  /\ Cardinality(ledger[hm].rids) <= 1
                  /\ ledger[hm].gens = Cardinality(ledger[hm].rids)
        /\ last.hit => last.invoked = <<>> /\ last.result = last.cacheBefore[last.key]
        /\ \A k \in DOMAIN last.cacheBefore :
              k \in DOMAIN cache /\ cache[k] = last.cacheBefore[k]

(* A second call with the page_hash and model of the first is served from  *)
(* the cache with the response the fallback provider made in call 1.       *)
Wit_C8_SecondCallHit ==
    /\ cacheEnabled
    /\ last.n = 2 /\ last.hit /\ Truthy(last.page_hash)
    /\ last.invoked = <<>>
    /\ last.result.kind = "response" /\ last.result.id = <<1, 2>>

(* C9: a call that misses the cache invokes the providers in chain order,  *)
(* each at most once, a provider only after all before it raised or        *)
(* returned empty or whitespace-only text; it returns the response of the  *)
(* first provider that returns a text and invokes none after it.           *)
Thm_C9_FallbackOrder ==
    (last.n > 0 /\ ~last.hit) =>
        LET k == Len(last.invoked)
            f == last.firstOk
        IN  /\ k = IF f > 0 THEN f ELSE Len(providers)
            /\ \A i \in 1..k : last.invoked[i].provider = providers[i]
            /\ \A i, j \in 1..k : i # j => last.invoked[i].provider # last.invoked[j].provider
            /\ \A i \in 1..k : (last.invoked[i].status = "success") <=> (i = f)
            /\ \A i \in 1..k : last.invoked[i].status \in {"raised", "empty", "success"}
            /\ f > 0 => /\ last.result.kind = "response"
                        /\ last.result.provider = providers[f]
                        /\ last.result.id = <<last.n, f>>
                        /\ Strip(last.result.text) # ""
            /\ f = 0 => last.result.kind # "response"

(* The first provider of three fails, the second answers, the third is not *)
(* invoked.                                                                *)
Wit_C9_SecondProviderServes ==
    /\ Len(providers) = 3 /\ ~last.hit
    /\ last.firstOk = 2 /\ Len(last.invoked) = 2
    /\ last.invoked[1].status \in {"raised", "empty"}
    /\ last.result.kind = "response" /\ last.result.provider = providers[2]

(* C10: when no provider of a non-empty chain returns a text and at least  *)
(* one raised, enrich raises the exception captured last in chain order,   *)
(* also when a later provider returned empty text; when none raised it     *)
(* returns null; with an empty chain it returns null and raises nothing.   *)
Thm_C10_LastErrorOrNull ==
    (last.n > 0 /\ ~last.hit /\ last.firstOk = 0) =>
        /\ last.lastRaise > 0 =>
              /\ last.result.kind = "raise"
              /\ last.result.id = <<last.n, last.lastRaise>>
              /\ last.result.provider = providers[last.lastRaise]
        /\ last.lastRaise = 0 => last.result = NoResult
        /\ providers = <<>> => last.result = NoResult /\ last.invoked = <<>>

(* Two providers raise and the third returns empty text: the second        *)
(* exception is the one raised.                                            *)
Wit_C10_LastOfTwoErrors ==
    /\ Len(providers) = 3 /\ last.n > 0 /\ ~last.hit
    /\ last.firstOk = 0 /\ last.lastRaise = 2
    /\ last.invoked[1].status = "raised" /\ last.invoked[3].status = "empty"
    /\ last.result.kind = "raise" /\ last.result.id = <<last.n, 2>>

(* The empty chain: null, nothing invoked. *)
Wit_C10_EmptyChain ==
    providers = <<>> /\ last.n > 0 /\ last.result = NoResult

(* C37: a call of enrich that raised or returned None leaves the cache as  *)
(* it was, with no entry for its key; the cache only ever gains the        *)
(* non-blank response a call that missed has just returned, under that     *)
(* call's key; and the call that follows a failed or empty one with the    *)
(* same key misses the cache and invokes the providers again from the head *)
(* of the chain.                                                           *)
Thm_C37_FailuresNotCached ==
    /\ (last.n > 0 /\ last.result.kind # "response") =>
           /\ last.key \notin DOMAIN cache
           /\ cache = last.cacheBefore
    /\ \A k \in DOMAIN cache :
           /\ cache[k].kind = "response" /\ Strip(cache[k].text) # ""
           /\ k \notin DOMAIN last.cacheBefore =>
                  (k = last.key /\ ~last.hit /\ cache[k] = last.result)
    /\ last.after # "none" =>
           /\ ~last.hit
           /\ last.key \notin DOMAIN last.cacheBefore
           /\ providers # <<>> =>
                  /\ last.invoked # <<>>
                  /\ last.invoked[1].provider = providers[1]
                  /\ Len(last.invoked) =
                         IF last.firstOk > 0 THEN last.firstOk ELSE Len(providers)

(* The first call raised; the second, for the same page hash and model,    *)
(* invoked the providers again and the fallback answered.                  *)
Wit_C37_RetriedAfterRaise ==
    /\ cacheEnabled /\ last.n = 2
    /\ last.after = "raise"
    /\ Truthy(last.page_hash)
    /\ ~last.hit /\ Len(last.invoked) = 2
    /\ last.invoked[1].provider = providers[1]
    /\ last.result.kind = "response"

(* The first call returned None; the second invoked the providers again.   *)
Wit_C37_RetriedAfterNone ==
    /\ cacheEnabled /\ last.n = 2
    /\ last.after = "null"
    /\ providers # <<>> /\ ~last.hit /\ last.invoked # <<>>

====
